---- MODULE Spec2Model ----
(***************************************************************************)
(* A model of the coffee-networking bot: the message parser, the reminder  *)
(* scheduler (SchedulerService) and the conversation controller            *)
(* (CoffeeNetworkingApp).                                                  *)
(*                                                                         *)
(* Time is a counter of minutes, `now': the reading of the process clock,  *)
(* at the resolution of a cron pattern.  Several operations may happen     *)
(* within one instant.  The clock advances by one minute or jumps to the   *)
(* next instant at which a timer is due.                                   *)
(***************************************************************************)
EXTENDS Integers, Sequences, FiniteSets, TLC

\* ------------------------------------------------------------------ bounds
\* Advances of the clock in a run.
MaxTicks == 2
\* Registrations made through the scheduler's public interface in a run.
MaxReminders == 2
\* Invocations of checkForNewMessages in flight at once.
MaxPolls == 2
\* Messages that arrive in the chat in a run.
MaxMessages == 2
\* Calls of a collaborator (chat, database, calendar, model) that fail in a run.
MaxFailures == 1

VARIABLES
  now,          \* the process clock (Date.now(), new Date())
  ticks,        \* history: the advances of the clock so far
  reminders,    \* every ScheduledReminder object made; `live' marks those in the Map
  executions,   \* history: the invocations of onReminderCallback
  last,         \* history: the last call of the scheduler's interface and its result
  pollInterval, \* the setInterval of startMonitoring is armed
  isProcessingMessage,
  lastProcessedMessageId,
  pendingFollowUpResponses,
  pendingContacts,
  pendingDraftMessages,
  ttlTimers,    \* the setTimeout timers of generateFollowUpSuggestions, oldest first
  polls,        \* the invocations of checkForNewMessages in flight
  inbox,        \* the chat: the messages received, oldest first
  outbox,       \* history: the messages the bot has sent
  contacts,     \* the contacts table of the database
  failures      \* history: the collaborator calls that failed

schedVars == <<now, ticks, reminders, executions, last>>
appVars == <<pollInterval, isProcessingMessage, lastProcessedMessageId, pendingFollowUpResponses,
             pendingContacts, pendingDraftMessages, ttlTimers, polls, inbox, outbox,
             contacts, failures>>
vars == <<schedVars, appVars>>

\* ------------------------------------------------------------------- strings
\* A string is the sequence of its characters.

Space == " "
Comma == ","
UpperCase == <<"A", "B", "C", "D", "E", "F", "G", "H", "I", "J", "K", "L", "M",
               "N", "O", "P", "Q", "R", "S", "T", "U", "V", "W", "X", "Y", "Z">>
LowerCase == <<"a", "b", "c", "d", "e", "f", "g", "h", "i", "j", "k", "l", "m",
               "n", "o", "p", "q", "r", "s", "t", "u", "v", "w", "x", "y", "z">>
Digits == <<"0", "1", "2", "3", "4", "5", "6", "7", "8", "9">>

Range(f) == {f[i] : i \in DOMAIN f}
Letters == Range(UpperCase) \cup Range(LowerCase)
Min(S) == CHOOSE x \in S : \A y \in S : x <= y
Max(S) == CHOOSE x \in S : \A y \in S : x >= y

\* String.prototype.toLowerCase
LowerChar(c) ==
  IF c \in Range(UpperCase)
    THEN LowerCase[CHOOSE k \in DOMAIN UpperCase : UpperCase[k] = c]
    ELSE c
ToLowerCase(s) == [i \in DOMAIN s |-> LowerChar(s[i])]

\* String.prototype.toUpperCase of one character
UpperChar(c) ==
  IF c \in Range(LowerCase)
    THEN UpperCase[CHOOSE k \in DOMAIN LowerCase : LowerCase[k] = c]
    ELSE c

\* String.prototype.trim
Trim(s) ==
  LET solid == {i \in DOMAIN s : s[i] # Space}
  IN  IF solid = {} THEN <<>> ELSE SubSeq(s, Min(solid), Max(solid))

\* sub occurs in s at position i
OccursAt(s, sub, i) ==
  /\ i >= 1
  /\ i + Len(sub) - 1 <= Len(s)
  /\ \A j \in 1..Len(sub) : s[i + j - 1] = sub[j]

\* String.prototype.includes
Includes(s, sub) == \E i \in 1..(Len(s) + 1) : OccursAt(s, sub, i)

\* The first position from i on whose character is not in set (Len(s) + 1
\* when there is none): where a greedy run of the characters of set ends.
RunEnd(s, i, set) ==
  IF i > Len(s) THEN i
  ELSE Min({j \in i..(Len(s) + 1) : j = Len(s) + 1 \/ s[j] \notin set})

\* parseInt of a run of digits
RECURSIVE ParseInt(_)
ParseInt(ds) ==
  IF ds = <<>> THEN 0
  ELSE 10 * ParseInt(SubSeq(ds, 1, Len(ds) - 1))
       + (CHOOSE k \in DOMAIN Digits : Digits[k] = ds[Len(ds)]) - 1

\* String.prototype.split(' ')
RECURSIVE Split(_)
Split(s) ==
  LET gaps == {i \in DOMAIN s : s[i] = Space}
  IN  IF gaps = {} THEN <<s>>
      ELSE <<SubSeq(s, 1, Min(gaps) - 1)>> \o Split(SubSeq(s, Min(gaps) + 1, Len(s)))

\* Array.prototype.join(' ')
RECURSIVE Join(_)
Join(ws) ==
  IF ws = <<>> THEN <<>>
  ELSE IF Len(ws) = 1 THEN ws[1]
  ELSE ws[1] \o <<Space>> \o Join(Tail(ws))

\* String.prototype.replace(/\s+/g, ' ')
RECURSIVE CollapseSpaces(_)
CollapseSpaces(s) ==
  IF Len(s) < 2 THEN s
  ELSE IF s[1] = Space /\ s[2] = Space THEN CollapseSpaces(Tail(s))
  ELSE <<s[1]>> \o CollapseSpaces(Tail(s))

\* The characters of a string literal: the message texts of the model and the
\* words the program looks for.
Chars(text) ==
  CASE text = "met ann at expo" ->
       <<"m", "e", "t", " ", "a", "n", "n", " ", "a", "t", " ", "e", "x", "p", "o">>
    [] text = "met bob at fair, he builds robots" ->
       <<"m", "e", "t", " ", "b", "o", "b", " ", "a", "t", " ", "f", "a", "i", "r", ",", " ", "h", "e", " ", "b", "u", "i", "l", "d", "s", " ", "r", "o", "b", "o", "t", "s">>
    [] text = "cancel" ->
       <<"c", "a", "n", "c", "e", "l">>
    [] text = " Cancel " ->
       <<" ", "C", "a", "n", "c", "e", "l", " ">>
    [] text = "summary" ->
       <<"s", "u", "m", "m", "a", "r", "y">>
    [] text = "now" ->
       <<"n", "o", "w">>
    [] text = "tomorrow" ->
       <<"t", "o", "m", "o", "r", "r", "o", "w">>
    [] text = "no" ->
       <<"n", "o">>
    [] text = "in 0 minutes" ->
       <<"i", "n", " ", "0", " ", "m", "i", "n", "u", "t", "e", "s">>
    [] text = "in 1 minute" ->
       <<"i", "n", " ", "1", " ", "m", "i", "n", "u", "t", "e">>
    [] text = "in 2 hours" ->
       <<"i", "n", " ", "2", " ", "h", "o", "u", "r", "s">>
    [] text = "friday" ->
       <<"f", "r", "i", "d", "a", "y">>
    [] text = "blah" ->
       <<"b", "l", "a", "h">>
    [] text = "now or tomorrow" ->
       <<"n", "o", "w", " ", "o", "r", " ", "t", "o", "m", "o", "r", "r", "o", "w">>
    [] text = "Send It" ->
       <<"S", "e", "n", "d", " ", "I", "t">>
    [] text = "no, in 2 hours" ->
       <<"n", "o", ",", " ", "i", "n", " ", "2", " ", "h", "o", "u", "r", "s">>
    [] text = "not friday" ->
       <<"n", "o", "t", " ", "f", "r", "i", "d", "a", "y">>
    [] text = "in 1 day" ->
       <<"i", "n", " ", "1", " ", "d", "a", "y">>
    [] text = "in 3 mins" ->
       <<"i", "n", " ", "3", " ", "m", "i", "n", "s">>
    [] text = "in 2 hours on friday" ->
       <<"i", "n", " ", "2", " ", "h", "o", "u", "r", "s", " ", "o", "n", " ", "f", "r", "i", "d", "a", "y">>
    [] text = "afternoon" ->
       <<"a", "f", "t", "e", "r", "n", "o", "o", "n">>
    [] text = "in  2 hours" ->
       <<"i", "n", " ", " ", "2", " ", "h", "o", "u", "r", "s">>
    [] text = "in 2 hours from now" ->
       <<"i", "n", " ", "2", " ", "h", "o", "u", "r", "s", " ", "f", "r", "o", "m", " ", "n", "o", "w">>
    [] text = "NOW " ->
       <<"N", "O", "W", " ">>
    [] text = "Tomorrow" ->
       <<"T", "o", "m", "o", "r", "r", "o", "w">>
    [] text = "met ann at sales summary" ->
       <<"m", "e", "t", " ", "a", "n", "n", " ", "a", "t", " ", "s", "a", "l", "e", "s", " ", "s", "u", "m", "m", "a", "r", "y">>
    [] text = "" ->
       <<>>
    [] text = "sales summary" ->
       <<"s", "a", "l", "e", "s", " ", "s", "u", "m", "m", "a", "r", "y">>
    [] text = "Ann" ->
       <<"A", "n", "n">>
    [] text = "Bob" ->
       <<"B", "o", "b">>
    [] text = "expo" ->
       <<"e", "x", "p", "o">>
    [] text = "fair" ->
       <<"f", "a", "i", "r">>
    [] text = "he builds robots" ->
       <<"h", "e", " ", "b", "u", "i", "l", "d", "s", " ", "r", "o", "b", "o", "t", "s">>
    [] text = "met" ->
       <<"m", "e", "t">>
    [] text = "at" ->
       <<"a", "t">>
    [] text = "in" ->
       <<"i", "n">>
    [] text = "hour" ->
       <<"h", "o", "u", "r">>
    [] text = "day" ->
       <<"d", "a", "y">>
    [] text = "min" ->
       <<"m", "i", "n">>
    [] text = "immediately" ->
       <<"i", "m", "m", "e", "d", "i", "a", "t", "e", "l", "y">>
    [] text = "send it" ->
       <<"s", "e", "n", "d", " ", "i", "t">>
    [] text = "morning" ->
       <<"m", "o", "r", "n", "i", "n", "g">>
    [] text = "never" ->
       <<"n", "e", "v", "e", "r">>
    [] text = "recent contacts" ->
       <<"r", "e", "c", "e", "n", "t", " ", "c", "o", "n", "t", "a", "c", "t", "s">>
    [] text = "sunday" ->
       <<"s", "u", "n", "d", "a", "y">>
    [] text = "monday" ->
       <<"m", "o", "n", "d", "a", "y">>
    [] text = "tuesday" ->
       <<"t", "u", "e", "s", "d", "a", "y">>
    [] text = "wednesday" ->
       <<"w", "e", "d", "n", "e", "s", "d", "a", "y">>
    [] text = "thursday" ->
       <<"t", "h", "u", "r", "s", "d", "a", "y">>
    [] text = "saturday" ->
       <<"s", "a", "t", "u", "r", "d", "a", "y">>
    [] text = "from" ->
       <<"f", "r", "o", "m">>
    [] text = "the" ->
       <<"t", "h", "e">>
    [] text = "a" ->
       <<"a">>
    [] text = "an" ->
       <<"a", "n">>
    [] text = "on" ->
       <<"o", "n">>
    [] text = "with" ->
       <<"w", "i", "t", "h">>
    [] text = "during" ->
       <<"d", "u", "r", "i", "n", "g">>
    [] text = "after" ->
       <<"a", "f", "t", "e", "r">>
    [] text = "before" ->
       <<"b", "e", "f", "o", "r", "e">>

\* The string literal of a sequence of characters.
Literals == {"met ann at expo",
             "met bob at fair, he builds robots",
             "cancel",
             " Cancel ",
             "summary",
             "now",
             "tomorrow",
             "no",
             "in 0 minutes",
             "in 1 minute",
             "in 2 hours",
             "friday",
             "blah",
             "now or tomorrow",
             "Send It",
             "no, in 2 hours",
             "not friday",
             "in 1 day",
             "in 3 mins",
             "in 2 hours on friday",
             "afternoon",
             "in  2 hours",
             "in 2 hours from now",
             "NOW ",
             "Tomorrow",
             "met ann at sales summary",
             "",
             "sales summary",
             "Ann",
             "Bob",
             "expo",
             "fair",
             "he builds robots",
             "met",
             "at",
             "in",
             "hour",
             "day",
             "min",
             "immediately",
             "send it",
             "morning",
             "never",
             "recent contacts",
             "sunday",
             "monday",
             "tuesday",
             "wednesday",
             "thursday",
             "saturday",
             "from",
             "the",
             "a",
             "an",
             "on",
             "with",
             "during",
             "after",
             "before"}
Text(chars) == CHOOSE text \in Literals : Chars(text) = chars

\* ------------------------------------------------------------- MessageParser

NAME_STOPWORDS == {Chars("at"), Chars("from"), Chars("the"), Chars("a"), Chars("an"),
                   Chars("in"), Chars("on"), Chars("with"), Chars("during"),
                   Chars("after"), Chars("before")}

\* filter(word => !NAME_STOPWORDS.includes(word.toLowerCase()))
RECURSIVE DropStopwords(_)
DropStopwords(ws) ==
  IF ws = <<>> THEN <<>>
  ELSE (IF ToLowerCase(ws[1]) \in NAME_STOPWORDS THEN <<>> ELSE <<ws[1]>>)
       \o DropStopwords(Tail(ws))

\* cleanName: trimmed, runs of spaces collapsed, stop words dropped, every
\* word capitalised.
CleanName(name) ==
  LET kept == DropStopwords(Split(CollapseSpaces(Trim(name))))
      Capitalise(word) ==
        IF word = <<>> THEN word
        ELSE <<UpperChar(word[1])>> \o ToLowerCase(Tail(word))
  IN  Join([i \in DOMAIN kept |-> Capitalise(kept[i])])

\* isValidName: one to three words, each of two letters or more.
IsValidName(name) ==
  LET split == Split(name)
  IN  /\ Len(split) >= 1
      /\ Len(split) <= 3
      /\ \A i \in DOMAIN split :
           Len(split[i]) >= 2 /\ \A k \in DOMAIN split[i] : split[i][k] \in Letters

\* The matches of /^met\s+([A-Za-z\s]+?)\s+at\s+([^,]+?)(?:,\s*(.+))?$/i in s:
\* the name is s[p..q], the word "at" starts at r, the event is s[e..f] and
\* the context, when there is one, starts at c (0: no context).
PatternMatches(s) ==
  LET L == Len(s)
      low == ToLowerCase(s)
      Spaces(a, b) == \A k \in a..b : s[k] = Space
      P == {p \in 5..L : Spaces(4, p - 1)}
      Q(p) == {q \in p..L : \A k \in p..q : s[k] \in Letters \cup {Space}}
      R(q) == {r \in (q + 2)..L : Spaces(q + 1, r - 1) /\ OccursAt(low, Chars("at"), r)}
      E(r) == {e \in (r + 3)..L : Spaces(r + 2, e - 1)}
      F(e) == {f \in e..L : \A k \in e..f : s[k] # Comma}
      C(f) == IF f = L THEN {0}
              ELSE IF s[f + 1] # Comma THEN {}
              ELSE {c \in (f + 2)..L : Spaces(f + 2, c - 1) /\ s[c] # Space}
  IN  IF ~OccursAt(low, Chars("met"), 1) THEN {}
      ELSE UNION {UNION {UNION {UNION {UNION {
             {[p |-> p, q |-> q, r |-> r, e |-> e, f |-> f, c |-> c] : c \in C(f)}
             : f \in F(e)} : e \in E(r)} : r \in R(q)} : q \in Q(p)} : p \in P}

\* The match the regular expression engine returns: the first in the order of
\* its search (greedy \s+, lazy name, lazy event).
FirstMatch(M) ==
  LET Before(m, n) ==
        \/ m.p > n.p
        \/ m.p = n.p /\ m.q < n.q
        \/ m.p = n.p /\ m.q = n.q /\ m.r > n.r
        \/ m.p = n.p /\ m.q = n.q /\ m.r = n.r /\ m.e > n.e
        \/ m.p = n.p /\ m.q = n.q /\ m.r = n.r /\ m.e = n.e /\ m.f < n.f
        \/ m.p = n.p /\ m.q = n.q /\ m.r = n.r /\ m.e = n.e /\ m.f = n.f /\ m.c >= n.c
  IN  CHOOSE m \in M : \A n \in M : Before(m, n)

NotAMeeting == [name |-> <<>>, event |-> <<>>, context |-> <<>>, isValidMeeting |-> FALSE]

\* parseMessage
ParseMessage(text) ==
  LET cleanedText == Trim(text)
      M == PatternMatches(cleanedText)
  IN  IF M = {} THEN NotAMeeting
      ELSE LET m == FirstMatch(M)
               name == CleanName(SubSeq(cleanedText, m.p, m.q))
           IN  IF ~IsValidName(name) THEN NotAMeeting
               ELSE [name |-> name,
                     event |-> Trim(SubSeq(cleanedText, m.e, m.f)),
                     context |-> IF m.c = 0 THEN <<>>
                                 ELSE Trim(SubSeq(cleanedText, m.c, Len(cleanedText))),
                     isValidMeeting |-> TRUE]

\* ------------------------------------------------------------------ the clock
\* An instant is a minute, counted from the midnight that begins a Sunday; a
\* Date is the instant of its minute.

MinutesPerHour == 60
HoursPerDay == 24
DaysPerWeek == 7
DaysPerYear == 365
MinutesPerDay == HoursPerDay * MinutesPerHour
\* Instants per year: a cron pattern "m h D M *" matches again one year later.
YearLen == DaysPerYear * MinutesPerDay
\* setHours(9, 0, 0, 0)
MorningHour == 9

NoDate == -1

\* Date.prototype.getDay: 0 is Sunday
GetDay(t) == (t \div MinutesPerDay) % DaysPerWeek
\* The midnight that begins the day of t.
StartOfDay(t) == t - (t % MinutesPerDay)

\* getTomorrowMorning: 9:00 of the day after t.
GetTomorrowMorning(t) == StartOfDay(t) + MinutesPerDay + MorningHour * MinutesPerHour

\* --------------------------------------- the classifier of scheduling replies

DayNames == <<Chars("sunday"), Chars("monday"), Chars("tuesday"), Chars("wednesday"),
              Chars("thursday"), Chars("friday"), Chars("saturday")>>

\* The matches of "in", blanks, digits, blanks at position i of s: the digits
\* are s[b..c-1] and the unit starts at d.  With `single' every run of blanks
\* is one space, as in /in (\d+) (hour|day)s?/; otherwise it is \s+.
AmountAt(s, i, single) ==
  LET b == RunEnd(s, i + 2, {Space})
      c == RunEnd(s, b, Range(Digits))
      d == RunEnd(s, c, {Space})
  IN  [found |-> /\ OccursAt(s, Chars("in"), i)
                 /\ b > i + 2 /\ c > b /\ d > c
                 /\ single => (b = i + 3 /\ d = c + 1),
       amount |-> ParseInt(SubSeq(s, b, c - 1)),
       unit |-> d]

\* An extractDateFromResponse that takes today for the day named when today
\* has that name.
ExtractDateFromResponseSameDay(response, t) ==
  LET Positions == 1..Len(response)
      IsUnit(i, single, unit) ==
        /\ AmountAt(response, i, single).found
        /\ OccursAt(response, Chars(unit), AmountAt(response, i, single).unit)
      inMatch == {i \in Positions : IsUnit(i, TRUE, "hour") \/ IsUnit(i, TRUE, "day")}
      minutesMatch == {i \in Positions : IsUnit(i, FALSE, "min")}
      dayMatch == {k \in DOMAIN DayNames : Includes(response, DayNames[k])}
  IN  IF inMatch # {}
        THEN LET i == Min(inMatch)
                 amount == AmountAt(response, i, TRUE).amount
             IN  IF IsUnit(i, TRUE, "hour") THEN t + amount * MinutesPerHour
                 ELSE t + amount * MinutesPerDay
      ELSE IF minutesMatch # {}
        THEN t + AmountAt(response, Min(minutesMatch), FALSE).amount
      ELSE IF dayMatch # {}
        THEN LET targetDay == Min(dayMatch) - 1
                 diff == targetDay - GetDay(t)
                 daysUntil == IF diff < 0 THEN diff + DaysPerWeek ELSE diff
             IN  StartOfDay(t) + daysUntil * MinutesPerDay + MorningHour * MinutesPerHour
      ELSE NoDate

\* extractDateFromResponse, read at instant t: "in N hours", "in N days",
\* "in N minutes" or the name of a day; NoDate when the response has none.
ExtractDateFromResponse(response, t) ==
  LET Positions == 1..Len(response)
      IsUnit(i, single, unit) ==
        /\ AmountAt(response, i, single).found
        /\ OccursAt(response, Chars(unit), AmountAt(response, i, single).unit)
      inMatch == {i \in Positions : IsUnit(i, TRUE, "hour") \/ IsUnit(i, TRUE, "day")}
      minutesMatch == {i \in Positions : IsUnit(i, FALSE, "min")}
      dayMatch == {k \in DOMAIN DayNames : Includes(response, DayNames[k])}
  IN  IF inMatch # {}
        THEN LET i == Min(inMatch)
                 amount == AmountAt(response, i, TRUE).amount
             IN  IF IsUnit(i, TRUE, "hour") THEN t + amount * MinutesPerHour
                 ELSE t + amount * MinutesPerDay
      ELSE IF minutesMatch # {}
        THEN t + AmountAt(response, Min(minutesMatch), FALSE).amount
      ELSE IF dayMatch # {}
        THEN LET targetDay == Min(dayMatch) - 1
                 diff == targetDay - GetDay(t)
                 daysUntil == IF diff <= 0 THEN diff + DaysPerWeek ELSE diff
             IN  StartOfDay(t) + daysUntil * MinutesPerDay + MorningHour * MinutesPerHour
      ELSE NoDate

SaysNow(s) ==
  Includes(s, Chars("now")) \/ Includes(s, Chars("immediately")) \/ Includes(s, Chars("send it"))
SaysTomorrow(s) == Includes(s, Chars("tomorrow")) \/ Includes(s, Chars("morning"))
SaysNo(s) == Includes(s, Chars("no")) \/ Includes(s, Chars("never"))

\* The return statement that isValidSchedulingResponse reaches: 1 the words of
\* Now, 2 those of Tomorrow, 3 those of NoReminder, 4 a date, 5 `return false'.
ValidRule(response, t) ==
  LET lowerResponse == Trim(ToLowerCase(response))
  IN  IF SaysNow(lowerResponse) THEN 1
      ELSE IF SaysTomorrow(lowerResponse) THEN 2
      ELSE IF SaysNo(lowerResponse) THEN 3
      ELSE IF ExtractDateFromResponse(lowerResponse, t) # NoDate THEN 4
      ELSE 5

\* The return statement that parseSchedulingResponse reaches: 1 to 4 as above,
\* 5 the default.
ParseRule(response, t) ==
  LET lowerResponse == Trim(ToLowerCase(response))
  IN  IF SaysNow(lowerResponse) THEN 1
      ELSE IF SaysTomorrow(lowerResponse) THEN 2
      ELSE IF SaysNo(lowerResponse) THEN 3
      ELSE IF ExtractDateFromResponse(lowerResponse, t) # NoDate THEN 4
      ELSE 5

\* isValidSchedulingResponse without the test of a date.
IsValidSchedulingResponseWordsOnly(response, t) ==
  LET lowerResponse == Trim(ToLowerCase(response))
  IN  SaysNow(lowerResponse) \/ SaysTomorrow(lowerResponse) \/ SaysNo(lowerResponse)

\* isValidSchedulingResponse
IsValidSchedulingResponse(response, t) ==
  LET lowerResponse == Trim(ToLowerCase(response))
  IN  \/ SaysNow(lowerResponse)
      \/ SaysTomorrow(lowerResponse)
      \/ SaysNo(lowerResponse)
      \/ ExtractDateFromResponse(lowerResponse, t) # NoDate

\* parseSchedulingResponse with the words of Tomorrow looked for first.
ParseSchedulingResponseTomorrowFirst(response, t) ==
  LET lowerResponse == Trim(ToLowerCase(response))
      none == [sendNow |-> FALSE, sendTomorrow |-> FALSE, noReminder |-> FALSE,
               customDate |-> NoDate]
  IN  IF SaysTomorrow(lowerResponse) THEN [none EXCEPT !.sendTomorrow = TRUE]
      ELSE IF SaysNow(lowerResponse) THEN [none EXCEPT !.sendNow = TRUE]
      ELSE IF SaysNo(lowerResponse) THEN [none EXCEPT !.noReminder = TRUE]
      ELSE IF ExtractDateFromResponse(lowerResponse, t) # NoDate
        THEN [none EXCEPT !.customDate = ExtractDateFromResponse(lowerResponse, t)]
      ELSE [none EXCEPT !.sendTomorrow = TRUE]

\* parseSchedulingResponse
ParseSchedulingResponse(response, t) ==
  LET lowerResponse == Trim(ToLowerCase(response))
      none == [sendNow |-> FALSE, sendTomorrow |-> FALSE, noReminder |-> FALSE,
               customDate |-> NoDate]
  IN  IF SaysNow(lowerResponse) THEN [none EXCEPT !.sendNow = TRUE]
      ELSE IF SaysTomorrow(lowerResponse) THEN [none EXCEPT !.sendTomorrow = TRUE]
      ELSE IF SaysNo(lowerResponse) THEN [none EXCEPT !.noReminder = TRUE]
      ELSE IF ExtractDateFromResponse(lowerResponse, t) # NoDate
        THEN [none EXCEPT !.customDate = ExtractDateFromResponse(lowerResponse, t)]
      ELSE [none EXCEPT !.sendTomorrow = TRUE]

\* ------------------------------------------------------------- the scheduler

\* The message texts a caller of the scheduler passes.
Messages == {"draft"}
NoId == <<0, 0>>
\* The value of `last' after a step that is no call of the interface.
Other == [op |-> "other", id |-> NoId, ret |-> FALSE]

\* generateReminderId: `reminder_${contactId}_${Date.now()}`
GenerateReminderId(contactId, t) == <<contactId, t>>

\* this.reminders.get(id): the indices of the live object stored under id
MapGet(rs, id) == {i \in DOMAIN rs : rs[i].live /\ rs[i].id = id}

\* The ids that are keys of the Map.
LiveIds(rs) == {rs[i].id : i \in {j \in DOMAIN rs : rs[j].live}}

\* dateToCronPattern: minute, hour, day and month of the date; the year is
\* dropped.
DateToCronPattern(date) == date % YearLen

\* node-cron: the pattern matches at its minute, every year.
CronMatches(t, pattern) == t % YearLen = pattern

\* The first instant after t at which the pattern matches.
NextMatch(t, pattern) ==
  LET thisYear == t - (t % YearLen) + pattern
  IN  IF thisYear > t THEN thisYear ELSE thisYear + YearLen

\* A cancelReminder that reports success for any reminder found under id.
CancelReminderRetFound(rs, id) == MapGet(rs, id) # {}

\* cancelReminder, its return value.
CancelReminderRet(rs, id) == \E i \in MapGet(rs, id) : rs[i].status = "pending"

\* A cancelReminder that ignores the status of the reminder it finds.
CancelReminderAnyStatus(rs, id) ==
  [i \in DOMAIN rs |->
     IF i \in MapGet(rs, id)
       THEN [rs[i] EXCEPT !.task = FALSE, !.status = "cancelled", !.live = FALSE]
       ELSE rs[i]]

\* cancelReminder, its effect on the reminders: a pending reminder found under
\* id has its task stopped, becomes cancelled and leaves the Map.
CancelReminderIn(rs, id) ==
  [i \in DOMAIN rs |->
     IF i \in MapGet(rs, id) /\ rs[i].status = "pending"
       THEN [rs[i] EXCEPT !.task = FALSE, !.status = "cancelled", !.live = FALSE]
       ELSE rs[i]]

\* A sweep that removes every entry.
CleanupRemovingAll(rs) == [i \in DOMAIN rs |-> [rs[i] EXCEPT !.live = FALSE]]

\* cleanupCompletedReminders: every entry whose status is not pending is
\* deleted from the Map.
CleanupIn(rs) ==
  [i \in DOMAIN rs |->
     IF rs[i].live /\ rs[i].status # "pending"
       THEN [rs[i] EXCEPT !.live = FALSE]
       ELSE rs[i]]

\* executeReminder calling onReminderCallback(contactId, message): one more
\* invocation of the action, not settled yet.  `how' is the reminder object
\* whose timer made the call, 0 for an immediate call; `n' counts the
\* invocations made for the id.
ExecuteReminder(log, id, contactId, message, how) ==
  log \cup {[id |-> id, contactId |-> contactId, message |-> message, how |-> how,
             n |-> Cardinality({e \in log : e.id = id}) + 1, outcome |-> "running"]}

\* this.reminders.set(id, reminder): the new object takes the key.
MapSet(rs, r) ==
  Append([i \in DOMAIN rs |->
            IF rs[i].live /\ rs[i].id = r.id THEN [rs[i] EXCEPT !.live = FALSE]
            ELSE rs[i]], r)

\* scheduleReminder: the id is made, a pending reminder of that id is
\* cancelled; with options.immediate the action is invoked and nothing is
\* stored; otherwise a cron task is made from the date and started, and the
\* reminder is stored as pending.
ScheduleReminderIn(rs, log, contactId, message, scheduledFor, immediate, t) ==
  LET id == GenerateReminderId(contactId, t)
      rs1 == CancelReminderIn(rs, id)
  IN  IF immediate
        THEN [rs |-> rs1, log |-> ExecuteReminder(log, id, contactId, message, 0),
              id |-> id]
        ELSE [rs |-> MapSet(rs1, [id |-> id, contactId |-> contactId, message |-> message,
                                  scheduledFor |-> scheduledFor, status |-> "pending",
                                  task |-> TRUE, live |-> TRUE, startedAt |-> t,
                                  firing |-> FALSE, lastFire |-> NoDate]),
              log |-> log,
              id |-> id]

\* A scheduleBasedOnPreference without the branch of noReminder: it falls
\* through to the default, tomorrow morning.
ScheduleBasedOnPreferenceInWithoutNoReminder(rs, log, contactId, message, preference, t) ==
  IF preference.sendNow
    THEN ScheduleReminderIn(rs, log, contactId, message, t, TRUE, t)
  ELSE IF preference.sendTomorrow
    THEN ScheduleReminderIn(rs, log, contactId, message, GetTomorrowMorning(t), FALSE, t)
  ELSE IF preference.customDate # NoDate
    THEN ScheduleReminderIn(rs, log, contactId, message, preference.customDate, FALSE, t)
  ELSE ScheduleReminderIn(rs, log, contactId, message, GetTomorrowMorning(t), FALSE, t)

\* scheduleBasedOnPreference, called at instant t: the reminder registered for
\* the preference; nothing is registered for noReminder.
ScheduleBasedOnPreferenceIn(rs, log, contactId, message, preference, t) ==
  IF preference.sendNow
    THEN ScheduleReminderIn(rs, log, contactId, message, t, TRUE, t)
  ELSE IF preference.sendTomorrow
    THEN ScheduleReminderIn(rs, log, contactId, message, GetTomorrowMorning(t), FALSE, t)
  ELSE IF preference.customDate # NoDate
    THEN ScheduleReminderIn(rs, log, contactId, message, preference.customDate, FALSE, t)
  ELSE IF preference.noReminder
    THEN [rs |-> rs, log |-> log, id |-> NoId]
  ELSE ScheduleReminderIn(rs, log, contactId, message, GetTomorrowMorning(t), FALSE, t)

\* The timer callback after the action, with the task left running.
AfterExecuteKeepTask(rs, i) ==
  [j \in DOMAIN rs |->
     IF j \in MapGet(rs, rs[i].id)
       THEN [rs[j] EXCEPT !.status = "sent", !.firing = IF j = i THEN FALSE ELSE @]
       ELSE IF j = i THEN [rs[j] EXCEPT !.firing = FALSE] ELSE rs[j]]

\* The timer callback after `await executeReminder': the reminder stored
\* under the id, when there is one, becomes sent and its task is stopped.
AfterExecute(rs, i) ==
  [j \in DOMAIN rs |->
     IF j \in MapGet(rs, rs[i].id)
       THEN [rs[j] EXCEPT !.status = "sent", !.task = FALSE,
                          !.firing = IF j = i THEN FALSE ELSE @]
       ELSE IF j = i THEN [rs[j] EXCEPT !.firing = FALSE] ELSE rs[j]]

\* The running invocations made by reminder object i (0: the immediate calls).
RunningOf(log, i) == {e \in log : e.outcome = "running" /\ e.how = i}

\* An executeReminder that calls the action again when it raised.
SettleRetrying(log, e, outcome) ==
  LET settled == (log \ {e}) \cup {[e EXCEPT !.outcome = outcome]}
  IN  IF outcome = "raised"
        THEN settled \cup {[e EXCEPT !.n = e.n + 1, !.outcome = "ok"]}
        ELSE settled

\* executeReminder after the await: the action returned or raised; a raise is
\* caught and logged.
Settle(log, e, outcome) == (log \ {e}) \cup {[e EXCEPT !.outcome = outcome]}

\* ------------------------------------------------- the scheduler's operations

\* The instants at which a timer is due next: the next match of the pattern
\* of every reminder, the expiry of every setTimeout.
Wakeups ==
  {NextMatch(now, DateToCronPattern(reminders[i].scheduledFor)) : i \in DOMAIN reminders}
  \cup {ttlTimers[k].due : k \in DOMAIN ttlTimers}

\* The clock advances to t.  A callback in flight ends within a year.
Tick(t) ==
  /\ ticks < MaxTicks
  /\ t > now
  /\ t \in {now + 1} \cup Wakeups
  /\ \A i \in DOMAIN reminders :
       reminders[i].firing => t < reminders[i].lastFire + YearLen
  /\ now' = t
  /\ ticks' = ticks + 1
  /\ last' = Other
  /\ UNCHANGED <<reminders, executions, appVars>>

\* The registrations made so far: the objects stored and the immediate calls.
Registrations == Len(reminders) + Cardinality({e \in executions : e.how = 0})

\* The caller registers a reminder for a contact it has just added: the ids
\* of the contacts table grow by one with every contact (AUTOINCREMENT).
FreshContactId == Registrations + 1

\* scheduleReminder called through the public interface.
CallScheduleReminder(contactId, message, scheduledFor, immediate) ==
  /\ Registrations < MaxReminders
  /\ LET r == ScheduleReminderIn(reminders, executions, contactId, message,
                                 scheduledFor, immediate, now)
     IN  /\ reminders' = r.rs
         /\ executions' = r.log
         /\ last' = Other
  /\ UNCHANGED <<now, ticks, appVars>>

\* The action of an immediate reminder settles.
ImmediateEnds(e, outcome) ==
  /\ e \in RunningOf(executions, 0)
  /\ executions' = Settle(executions, e, outcome)
  /\ last' = Other
  /\ UNCHANGED <<now, ticks, reminders>>

ImmediateSettles(outcome) ==
  \E e \in RunningOf(executions, 0) : ImmediateEnds(e, outcome) /\ UNCHANGED appVars

\* parseSchedulingResponse called through the public interface.
CallParseSchedulingResponse(response) ==
  /\ last' = [op |-> "parseSchedulingResponse", response |-> response, at |-> now,
              ret |-> ParseSchedulingResponse(Chars(response), now)]
  /\ UNCHANGED <<now, ticks, reminders, executions, appVars>>

\* scheduleBasedOnPreference called through the public interface with the
\* value that parseSchedulingResponse has just returned.
CallScheduleBasedOnPreference(contactId, message) ==
  /\ last.op = "parseSchedulingResponse"
  /\ Registrations < MaxReminders
  /\ LET r == ScheduleBasedOnPreferenceIn(reminders, executions, contactId, message,
                                         last.ret, now)
     IN  /\ reminders' = r.rs
         /\ executions' = r.log
         /\ last' = [op |-> "scheduleBasedOnPreference", preference |-> last.ret,
                     ret |-> r.id]
  /\ UNCHANGED <<now, ticks, appVars>>

\* isValidSchedulingResponse called through the public interface.
CallIsValidSchedulingResponse(response) ==
  /\ last' = [op |-> "isValidSchedulingResponse", response |-> response, at |-> now,
              ret |-> IsValidSchedulingResponse(Chars(response), now)]
  /\ UNCHANGED <<now, ticks, reminders, executions, appVars>>

\* cancelReminder called through the public interface.
CallCancelReminder(id) ==
  /\ reminders' = CancelReminderIn(reminders, id)
  /\ last' = [op |-> "cancelReminder", id |-> id, ret |-> CancelReminderRet(reminders, id)]
  /\ UNCHANGED <<now, ticks, executions, appVars>>

\* The hourly cron task of the constructor.
CleanupCompletedReminders ==
  /\ reminders' = CleanupIn(reminders)
  /\ last' = [op |-> "cleanup", id |-> NoId, ret |-> TRUE]
  /\ UNCHANGED <<now, ticks, executions, appVars>>

\* The cron task of reminder object i fires: its callback starts and runs
\* executeReminder up to the await of the action.
TimerFires(i) ==
  /\ i \in DOMAIN reminders
  /\ reminders[i].task
  /\ now > reminders[i].startedAt
  /\ reminders[i].lastFire # now
  /\ CronMatches(now, DateToCronPattern(reminders[i].scheduledFor))
  /\ reminders' = [reminders EXCEPT ![i].firing = TRUE, ![i].lastFire = now]
  /\ executions' = ExecuteReminder(executions, reminders[i].id, reminders[i].contactId,
                                   reminders[i].message, i)
  /\ last' = Other
  /\ UNCHANGED <<now, ticks, appVars>>

\* The action of reminder object i settles and the timer callback finishes.
CallbackEnds(i, outcome) ==
  /\ i \in DOMAIN reminders
  /\ reminders[i].firing
  /\ \E e \in RunningOf(executions, i) : executions' = Settle(executions, e, outcome)
  /\ reminders' = AfterExecute(reminders, i)
  /\ last' = Other
  /\ UNCHANGED <<now, ticks>>

TimerCallbackDone(i, outcome) == CallbackEnds(i, outcome) /\ UNCHANGED appVars

\* ------------------------------------------------------------ the controller

\* process.env.MY_PHONE, and another participant of the chat
MyPhone == "me"
Friend == "friend"
Senders == {MyPhone}

\* setTimeout(..., 10 * 60 * 1000): minutes until a pending flag is deleted
TTL == 10
\* (now - messageTime) < 30000: a message is recent while the clock shows the
\* minute of its date.
RecencyWindow == 1

NoContact == [name |-> "", event |-> "", context |-> ""]
NoDraft == [name |-> "", event |-> "", topicSentence |-> "", timeSlotText |-> ""]
NoPreference == [sendNow |-> FALSE, sendTomorrow |-> FALSE, noReminder |-> FALSE,
                 customDate |-> NoDate]

\* pendingFollowUpResponses.has(sender).  The Map is modelled by the instant
\* at which the flag of a sender was set (the program stores `true'), NoDate
\* for a sender that is no key.
Has(map, sender) == map[sender] # NoDate

\* An invocation of checkForNewMessages: where it is suspended (`pc', and for
\* a send the statement `at'), the message it handles and its locals.
Idle == [pc |-> "idle", at |-> "", msg |-> 0, sender |-> "", contact |-> NoContact,
         draftMessage |-> NoDraft, schedulePreference |-> NoPreference, contactId |-> 0,
         timeSlotText |-> "", topicSentence |-> ""]

\* hasMeaningfulContext
HasMeaningfulContext(context) ==
  IF context = <<>> \/ Len(Trim(context)) < 5 THEN FALSE
  ELSE LET cleaned == ToLowerCase(Trim(context))
       IN  Len(cleaned) >= 10 /\ (Includes(cleaned, <<Space>>) \/ Len(cleaned) > 15)

\* createUnifiedMessage: the text made of the name, the event, the topic
\* sentence and the time slots.
CreateUnifiedMessage(contactName, event, topicSentence, timeSlotText) ==
  [name |-> contactName, event |-> event, topicSentence |-> topicSentence,
   timeSlotText |-> timeSlotText]

\* The message of a reminder: `Time to follow up with ${contact.name}. Here's
\* your draft message: "${draftMessage}"'
ReminderMessage(contact, draftMessage) == [name |-> contact.name, draft |-> draftMessage]

\* The fields of the controller and of its collaborators as invocation p
\* sees them, with its own frame.
World(p) ==
  [isProcessingMessage |-> isProcessingMessage,
   lastProcessedMessageId |-> lastProcessedMessageId,
   pendingFollowUpResponses |-> pendingFollowUpResponses,
   pendingContacts |-> pendingContacts,
   pendingDraftMessages |-> pendingDraftMessages,
   ttlTimers |-> ttlTimers,
   outbox |-> outbox,
   contacts |-> contacts,
   reminders |-> reminders,
   executions |-> executions,
   frame |-> polls[p]]

\* Invocation p has run up to its next await and left the world as W.
Becomes(p, W) ==
  /\ isProcessingMessage' = W.isProcessingMessage
  /\ lastProcessedMessageId' = W.lastProcessedMessageId
  /\ pendingFollowUpResponses' = W.pendingFollowUpResponses
  /\ pendingContacts' = W.pendingContacts
  /\ pendingDraftMessages' = W.pendingDraftMessages
  /\ ttlTimers' = W.ttlTimers
  /\ outbox' = W.outbox
  /\ contacts' = W.contacts
  /\ reminders' = W.reminders
  /\ executions' = W.executions
  /\ polls' = [polls EXCEPT ![p] = W.frame]
  /\ last' = Other
  /\ UNCHANGED <<now, ticks, inbox, pollInterval>>

\* The invocation suspends at an await.
Await(W, pc) == [W EXCEPT !.frame.pc = pc, !.frame.at = ""]
\* The invocation suspends at `await this.imessage.send' of statement at.
AwaitSend(W, at) == [W EXCEPT !.frame.pc = "send", !.frame.at = at]

\* A clearPendingData that deletes the flag and leaves the drafts.
ClearPendingDataFlagOnly(W, sender) ==
  [W EXCEPT !.pendingFollowUpResponses[sender] = NoDate]

\* clearPendingData
ClearPendingData(W, sender) ==
  [W EXCEPT !.pendingFollowUpResponses[sender] = NoDate,
            !.pendingContacts[sender] = NoContact,
            !.pendingDraftMessages[sender] = NoDraft]

\* A checkForNewMessages without the finally block: the flag stays raised.
HandledWithoutFinally(W) ==
  [W EXCEPT !.lastProcessedMessageId = W.frame.msg,
            !.frame = Idle]

\* checkForNewMessages after handleDetectedMessage has returned: the message
\* is recorded as processed and the flag is lowered.
Handled(W) ==
  [W EXCEPT !.lastProcessedMessageId = W.frame.msg,
            !.isProcessingMessage = FALSE,
            !.frame = Idle]

\* A handleCancelCommand that also cancels every pending reminder.
HandleCancelCommandCancellingReminders(W) ==
  LET sender == W.frame.sender
      hadPending == Has(W.pendingFollowUpResponses, sender)
      cleared == ClearPendingData(W, sender)
  IN  AwaitSend([cleared EXCEPT !.isProcessingMessage = FALSE,
                                !.reminders = [i \in DOMAIN W.reminders |->
                                                 IF W.reminders[i].status = "pending"
                                                   THEN [W.reminders[i] EXCEPT
                                                           !.task = FALSE,
                                                           !.status = "cancelled",
                                                           !.live = FALSE]
                                                   ELSE W.reminders[i]]],
                IF hadPending THEN "ccCancelled" ELSE "ccReady")

\* handleCancelCommand up to its send.
HandleCancelCommand(W) ==
  LET sender == W.frame.sender
      hadPending == Has(W.pendingFollowUpResponses, sender)
      cleared == ClearPendingData(W, sender)
  IN  AwaitSend([cleared EXCEPT !.isProcessingMessage = FALSE],
                IF hadPending THEN "ccCancelled" ELSE "ccReady")

\* handleMeetingMessage up to the await of the calendar in
\* generateFollowUpSuggestions: the draft contact is stored.
HandleMeetingMessage(W, parsed) ==
  LET contact == [name |-> Text(parsed.name), event |-> Text(parsed.event),
                  context |-> Text(parsed.context)]
  IN  Await([W EXCEPT !.pendingContacts[W.frame.sender] = contact,
                      !.frame.contact = contact],
            "calendar")

\* A handleSchedulingResponse that does not ask isValidSchedulingResponse.
HandleSchedulingResponseUnvalidated(W, response, t) ==
  LET sender == W.frame.sender
      contact == W.pendingContacts[sender]
      draftMessage == W.pendingDraftMessages[sender]
      held == [W EXCEPT !.frame.contact = contact, !.frame.draftMessage = draftMessage]
  IN  IF ~Has(W.pendingFollowUpResponses, sender) THEN Handled(W)
      ELSE IF contact = NoContact \/ draftMessage = NoDraft THEN AwaitSend(held, "srMissing")
      ELSE IF Trim(ToLowerCase(response)) = Chars("cancel") THEN AwaitSend(held, "srCancel")
      ELSE Await([held EXCEPT !.frame.schedulePreference =
                                 ParseSchedulingResponse(response, t)],
                 "addContact")

\* handleSchedulingResponse up to its first await, for a response read at t.
HandleSchedulingResponse(W, response, t) ==
  LET sender == W.frame.sender
      contact == W.pendingContacts[sender]
      draftMessage == W.pendingDraftMessages[sender]
      held == [W EXCEPT !.frame.contact = contact, !.frame.draftMessage = draftMessage]
  IN  IF ~Has(W.pendingFollowUpResponses, sender) THEN Handled(W)
      ELSE IF contact = NoContact \/ draftMessage = NoDraft THEN AwaitSend(held, "srMissing")
      ELSE IF Trim(ToLowerCase(response)) = Chars("cancel") THEN AwaitSend(held, "srCancel")
      ELSE IF ~IsValidSchedulingResponse(response, t) THEN AwaitSend(held, "srReprompt")
      ELSE Await([held EXCEPT !.frame.schedulePreference =
                                 ParseSchedulingResponse(response, t)],
                 "addContact")

\* A handleMessage that reads the sender as pending while a draft contact
\* is stored.
HandleMessageRoutingByDraft(W, text, t) ==
  LET messageText == Trim(Trim(text))
      lower == ToLowerCase(messageText)
      parsed == ParseMessage(messageText)
      sender == W.frame.sender
      contact == W.pendingContacts[sender]
      draftMessage == W.pendingDraftMessages[sender]
      held == [W EXCEPT !.frame.contact = contact, !.frame.draftMessage = draftMessage]
  IN  IF contact # NoContact /\ draftMessage # NoDraft
        THEN IF Trim(lower) = Chars("cancel") THEN AwaitSend(held, "srCancel")
             ELSE IF ~IsValidSchedulingResponse(messageText, t)
               THEN AwaitSend(held, "srReprompt")
             ELSE Await([held EXCEPT !.frame.schedulePreference =
                                        ParseSchedulingResponse(messageText, t)],
                        "addContact")
      ELSE IF Trim(lower) = Chars("cancel") THEN HandleCancelCommand(W)
      ELSE IF Includes(lower, Chars("summary")) \/ Includes(lower, Chars("recent contacts"))
        THEN Await(W, "getSummary")
      ELSE IF parsed.isValidMeeting THEN HandleMeetingMessage(W, parsed)
      ELSE AwaitSend(W, "help")

\* A handleMessage that takes every text that is not a command for a meeting.
HandleMessageWithoutHelp(W, text, t) ==
  LET messageText == Trim(Trim(text))
      lower == ToLowerCase(messageText)
      parsed == ParseMessage(messageText)
  IN  IF Has(W.pendingFollowUpResponses, W.frame.sender)
        THEN HandleSchedulingResponse(W, messageText, t)
      ELSE IF Trim(lower) = Chars("cancel") THEN HandleCancelCommand(W)
      ELSE IF Includes(lower, Chars("summary")) \/ Includes(lower, Chars("recent contacts"))
        THEN Await(W, "getSummary")
      ELSE HandleMeetingMessage(W, parsed)

\* handleDetectedMessage and handleMessage up to the first await.
HandleMessage(W, text, t) ==
  LET messageText == Trim(Trim(text))
      lower == ToLowerCase(messageText)
      parsed == ParseMessage(messageText)
  IN  IF Has(W.pendingFollowUpResponses, W.frame.sender)
        THEN HandleSchedulingResponse(W, messageText, t)
      ELSE IF Trim(lower) = Chars("cancel") THEN HandleCancelCommand(W)
      ELSE IF Includes(lower, Chars("summary")) \/ Includes(lower, Chars("recent contacts"))
        THEN Await(W, "getSummary")
      ELSE IF parsed.isValidMeeting THEN HandleMeetingMessage(W, parsed)
      ELSE AwaitSend(W, "help")

\* generateFollowUpSuggestions from the making of the draft to its send: the
\* draft message is stored.
SendSuggestion(W) ==
  LET contact == W.frame.contact
      draftMessage == CreateUnifiedMessage(contact.name, contact.event,
                                           W.frame.topicSentence, W.frame.timeSlotText)
  IN  AwaitSend([W EXCEPT !.pendingDraftMessages[W.frame.sender] = draftMessage,
                          !.frame.draftMessage = draftMessage],
                "suggestion")

\* generateFollowUpSuggestions after the await of the calendar.
AfterCalendar(W, ok) ==
  LET slotted == [W EXCEPT !.frame.timeSlotText = IF ok THEN "free" ELSE "fallback"]
  IN  IF HasMeaningfulContext(Chars(W.frame.contact.context)) THEN Await(slotted, "ai")
      ELSE SendSuggestion(slotted)

\* generateFollowUpSuggestions after the await of the topic sentence.
AfterTopicSentence(W, ok) ==
  SendSuggestion([W EXCEPT !.frame.topicSentence = IF ok THEN "topic" ELSE ""])

\* The statement that runs when the send of statement at raises: the send of
\* the enclosing catch block ("": the failure is logged and dropped).
CatchOf(at) ==
  CASE at = "suggestion" -> "gsError"
    [] at = "gsError" -> "mmError"
    [] at \in {"ccCancelled", "ccReady"} -> "ccError"
    [] at = "summary" -> "sumError"
    [] at \in {"srMissing", "srCancel", "srReprompt", "srNoReminder", "srConfirm"} -> "srError"
    [] at \in {"mmError", "ccError", "sumError", "srError", "help"} -> "dmError"
    [] at = "dmError" -> ""

\* A handler that, after the error for a lost draft, leaves the pending data.
AfterSendKeepsLostSession(W, ok, t) ==
  LET at == W.frame.at
      sender == W.frame.sender
      sent == [W EXCEPT !.outbox = Append(@, [kind |-> at, name |-> W.frame.contact.name,
                                              draft |-> W.frame.draftMessage])]
  IN  IF ~ok
        THEN IF CatchOf(at) = "" THEN Handled(W) ELSE AwaitSend(W, CatchOf(at))
      ELSE IF at = "suggestion"
        THEN Handled([sent EXCEPT !.pendingFollowUpResponses[sender] = t,
                                  !.ttlTimers = Append(@, [sender |-> sender,
                                                         due |-> t + TTL])])
      ELSE IF at \in {"srCancel", "srNoReminder", "srError"}
        THEN Handled(ClearPendingData(sent, sender))
      ELSE IF at = "srConfirm" THEN Await(sent, "updateStatus")
      ELSE Handled(sent)

\* The handler after `await this.imessage.send' of statement at, at instant t.
AfterSend(W, ok, t) ==
  LET at == W.frame.at
      sender == W.frame.sender
      sent == [W EXCEPT !.outbox = Append(@, [kind |-> at, name |-> W.frame.contact.name,
                                              draft |-> W.frame.draftMessage])]
  IN  IF ~ok
        THEN IF CatchOf(at) = "" THEN Handled(W) ELSE AwaitSend(W, CatchOf(at))
      ELSE IF at = "suggestion"
        THEN Handled([sent EXCEPT !.pendingFollowUpResponses[sender] = t,
                                  !.ttlTimers = Append(@, [sender |-> sender,
                                                         due |-> t + TTL])])
      ELSE IF at \in {"srMissing", "srCancel", "srNoReminder", "srError"}
        THEN Handled(ClearPendingData(sent, sender))
      ELSE IF at = "srConfirm" THEN Await(sent, "updateStatus")
      ELSE Handled(sent)

\* A handleSchedulingResponse that goes on to the scheduler when addContact
\* has raised.
AfterAddContactIgnoringFailure(W, ok, t) ==
  LET contact == W.frame.contact
      contactId == Len(W.contacts) + 1
      r == ScheduleBasedOnPreferenceIn(W.reminders, W.executions, contactId,
                                       ReminderMessage(contact, W.frame.draftMessage),
                                       W.frame.schedulePreference, t)
  IN  IF r.id # NoId
        THEN AwaitSend([W EXCEPT !.reminders = r.rs, !.executions = r.log,
                                 !.frame.contactId = contactId], "srConfirm")
      ELSE Handled(ClearPendingData(W, W.frame.sender))

\* A handleSchedulingResponse that, after addContact, registers with the
\* scheduler whatever the preference is.
AfterAddContactAlwaysSchedules(W, ok, t) ==
  LET contact == W.frame.contact
      contactId == Len(W.contacts) + 1
      saved == [W EXCEPT !.contacts = Append(@, [name |-> contact.name,
                                                 event |-> contact.event,
                                                 context |-> contact.context,
                                                 followUpStatus |-> "pending",
                                                 scheduledFollowUp |-> NoDate]),
                         !.frame.contactId = contactId]
      r == ScheduleBasedOnPreferenceIn(W.reminders, W.executions, contactId,
                                       ReminderMessage(contact, W.frame.draftMessage),
                                       W.frame.schedulePreference, t)
  IN  IF ~ok THEN AwaitSend(W, "srError")
      ELSE IF r.id # NoId
        THEN AwaitSend([saved EXCEPT !.reminders = r.rs, !.executions = r.log], "srConfirm")
      ELSE Handled(ClearPendingData(saved, W.frame.sender))

\* handleSchedulingResponse after `await this.database.addContact', at t.
AfterAddContact(W, ok, t) ==
  LET contact == W.frame.contact
      contactId == Len(W.contacts) + 1
      saved == [W EXCEPT !.contacts = Append(@, [name |-> contact.name,
                                                 event |-> contact.event,
                                                 context |-> contact.context,
                                                 followUpStatus |-> "pending",
                                                 scheduledFollowUp |-> NoDate]),
                         !.frame.contactId = contactId]
      r == ScheduleBasedOnPreferenceIn(W.reminders, W.executions, contactId,
                                       ReminderMessage(contact, W.frame.draftMessage),
                                       W.frame.schedulePreference, t)
  IN  IF ~ok THEN AwaitSend(W, "srError")
      ELSE IF W.frame.schedulePreference.noReminder THEN Await(saved, "updateCompleted")
      ELSE IF r.id # NoId
        THEN AwaitSend([saved EXCEPT !.reminders = r.rs, !.executions = r.log], "srConfirm")
      ELSE Handled(ClearPendingData(saved, W.frame.sender))

\* A handleSchedulingResponse whose last update always writes `scheduled'.
AfterUpdateContactAlwaysScheduled(W, ok) ==
  LET id == W.frame.contactId
      preference == W.frame.schedulePreference
  IN  IF ~ok THEN AwaitSend(W, "srError")
      ELSE IF W.frame.pc = "updateCompleted"
        THEN AwaitSend([W EXCEPT !.contacts[id].followUpStatus = "completed"], "srNoReminder")
      ELSE Handled(ClearPendingData(
             [W EXCEPT !.contacts[id].followUpStatus = "scheduled",
                       !.contacts[id].scheduledFollowUp =
                          IF preference.customDate # NoDate THEN preference.customDate ELSE @],
             W.frame.sender))

\* handleSchedulingResponse after `await this.database.updateContact'.
AfterUpdateContact(W, ok) ==
  LET id == W.frame.contactId
      preference == W.frame.schedulePreference
  IN  IF ~ok THEN AwaitSend(W, "srError")
      ELSE IF W.frame.pc = "updateCompleted"
        THEN AwaitSend([W EXCEPT !.contacts[id].followUpStatus = "completed"], "srNoReminder")
      ELSE Handled(ClearPendingData(
             [W EXCEPT !.contacts[id].followUpStatus =
                          IF preference.sendNow THEN "sent" ELSE "scheduled",
                       !.contacts[id].scheduledFollowUp =
                          IF preference.customDate # NoDate THEN preference.customDate ELSE @],
             W.frame.sender))

\* handleSummaryRequest after `await this.database.getContactSummary'.
AfterGetContactSummary(W, ok) == AwaitSend(W, IF ok THEN "summary" ELSE "sumError")

\* recentSelfMessages[0]: the latest message of the chat that is from
\* MyPhone and has a text (0: none).
LatestSelfMessage(chat) ==
  LET own == {i \in DOMAIN chat : chat[i].sender = MyPhone /\ Trim(Chars(chat[i].text)) # <<>>}
  IN  IF own = {} THEN 0 ELSE Max(own)

\* A checkForNewMessages that handles a new message whatever its age.
AfterGetMessagesWhateverAge(W, chat, t) ==
  LET msg == W.frame.msg
  IN  IF msg = 0 THEN [W EXCEPT !.frame = Idle]
      ELSE IF msg # W.lastProcessedMessageId
        THEN HandleMessage([W EXCEPT !.isProcessingMessage = TRUE,
                                     !.frame.sender = chat[msg].sender],
                           Chars(chat[msg].text), t)
      ELSE [W EXCEPT !.frame = Idle]

\* checkForNewMessages after `await this.imessage.getMessages' returned the
\* message msg as the latest, at instant t: a new and recent message raises
\* the flag and is handled.
AfterGetMessages(W, chat, t) ==
  LET msg == W.frame.msg
      isRecentMessage == t - chat[msg].date < RecencyWindow
  IN  IF msg = 0 THEN [W EXCEPT !.frame = Idle]
      ELSE IF msg # W.lastProcessedMessageId /\ isRecentMessage
        THEN HandleMessage([W EXCEPT !.isProcessingMessage = TRUE,
                                     !.frame.sender = chat[msg].sender],
                           Chars(chat[msg].text), t)
      ELSE IF W.lastProcessedMessageId = 0
        THEN [W EXCEPT !.lastProcessedMessageId = msg, !.frame = Idle]
      ELSE [W EXCEPT !.frame = Idle]

\* ------------------------------------------------- the controller's operations

\* A collaborator call returns (ok) or raises; the failures of a run are
\* counted.
Outcome(ok) ==
  /\ ok \/ failures < MaxFailures
  /\ failures' = IF ok THEN failures ELSE failures + 1

Suspended(p, pcs) == p \in DOMAIN polls /\ polls[p].pc \in pcs

\* The chat receives a message.
Arrives(sender, text) ==
  /\ inbox' = Append(inbox, [sender |-> sender, text |-> text, date |-> now])
  /\ last' = Other
  /\ UNCHANGED <<now, ticks, reminders, executions, pollInterval, isProcessingMessage,
                 lastProcessedMessageId, pendingFollowUpResponses, pendingContacts,
                 pendingDraftMessages, ttlTimers, polls, outbox, contacts, failures>>

\* A message arrives in the chat.
MessageArrives(sender, text) ==
  /\ Len(inbox) < MaxMessages
  /\ Arrives(sender, text)

\* The setInterval callback (and the initial check of startMonitoring):
\* checkForNewMessages finds the flag lowered and calls getMessages.  An
\* invocation that finds the flag raised returns at once and changes nothing.
PollTick(p) ==
  /\ pollInterval
  /\ Suspended(p, {"idle"})
  /\ \A q \in 1..(p - 1) : polls[q].pc # "idle"
  /\ ~isProcessingMessage
  /\ polls' = [polls EXCEPT ![p].pc = "getMessages"]
  /\ last' = Other
  /\ UNCHANGED <<now, ticks, reminders, executions, pollInterval, isProcessingMessage,
                 lastProcessedMessageId, pendingFollowUpResponses, pendingContacts,
                 pendingDraftMessages, ttlTimers, inbox, outbox, contacts, failures>>

\* getMessages raises: checkForNewMessages logs the error and returns.
GetMessagesFails(p) ==
  /\ Suspended(p, {"getMessages"})
  /\ Outcome(FALSE)
  /\ polls' = [polls EXCEPT ![p] = Idle]
  /\ last' = Other
  /\ UNCHANGED <<now, ticks, reminders, executions, pollInterval, isProcessingMessage,
                 lastProcessedMessageId, pendingFollowUpResponses, pendingContacts,
                 pendingDraftMessages, ttlTimers, inbox, outbox, contacts>>

\* getMessages returns the chat as it is and checkForNewMessages resumes.
GetMessagesReturns(p) ==
  /\ Suspended(p, {"getMessages"})
  /\ Becomes(p, AfterGetMessages([World(p) EXCEPT !.frame.msg = LatestSelfMessage(inbox)],
                                 inbox, now))
  /\ UNCHANGED failures

\* calendar.findAvailableSlots returns or raises.
CalendarReturns(p, ok) ==
  /\ Suspended(p, {"calendar"})
  /\ Outcome(ok)
  /\ Becomes(p, AfterCalendar(World(p), ok))

\* ai.generateTopicSentence returns or raises.
TopicSentenceReturns(p, ok) ==
  /\ Suspended(p, {"ai"})
  /\ Outcome(ok)
  /\ Becomes(p, AfterTopicSentence(World(p), ok))

\* imessage.send returns or raises.
SendReturns(p, ok) ==
  /\ Suspended(p, {"send"})
  /\ Outcome(ok)
  /\ Becomes(p, AfterSend(World(p), ok, now))

\* database.addContact returns or raises.
AddContactReturns(p, ok) ==
  /\ Suspended(p, {"addContact"})
  /\ Outcome(ok)
  /\ Becomes(p, AfterAddContact(World(p), ok, now))

\* database.updateContact returns or raises.
UpdateContactReturns(p, ok) ==
  /\ Suspended(p, {"updateCompleted", "updateStatus"})
  /\ Outcome(ok)
  /\ Becomes(p, AfterUpdateContact(World(p), ok))

\* database.getContactSummary returns or raises.
GetContactSummaryReturns(p, ok) ==
  /\ Suspended(p, {"getSummary"})
  /\ Outcome(ok)
  /\ Becomes(p, AfterGetContactSummary(World(p), ok))

\* The setTimeout callback of generateFollowUpSuggestions: the oldest timer
\* is due and deletes the pending flag of its sender.
TtlExpires ==
  /\ ttlTimers # <<>>
  /\ Head(ttlTimers).due <= now
  /\ pendingFollowUpResponses' =
       [pendingFollowUpResponses EXCEPT ![Head(ttlTimers).sender] = NoDate]
  /\ ttlTimers' = Tail(ttlTimers)
  /\ last' = Other
  /\ UNCHANGED <<now, ticks, reminders, executions, pollInterval, isProcessingMessage,
                 lastProcessedMessageId, pendingContacts, pendingDraftMessages, polls,
                 inbox, outbox, contacts, failures>>

\* A sendFollowUpReminder that ends the pending interaction of MyPhone.
SendFollowUpReminderEndingInteraction(message, delivered) ==
  /\ Outcome(delivered)
  /\ outbox' = IF delivered
                 THEN Append(outbox, [kind |-> "reminder", name |-> message.name,
                                      draft |-> message.draft])
                 ELSE outbox
  /\ pendingFollowUpResponses' = [pendingFollowUpResponses EXCEPT ![MyPhone] = NoDate]
  /\ UNCHANGED <<pollInterval, isProcessingMessage, lastProcessedMessageId,
                 pendingContacts, pendingDraftMessages, ttlTimers,
                 polls, inbox, contacts>>

\* sendFollowUpReminder: the contact is read and the message is sent to
\* MyPhone; a failure is logged and dropped.
SendFollowUpReminder(message, delivered) ==
  /\ Outcome(delivered)
  /\ outbox' = IF delivered
                 THEN Append(outbox, [kind |-> "reminder", name |-> message.name,
                                      draft |-> message.draft])
                 ELSE outbox
  /\ UNCHANGED <<pollInterval, isProcessingMessage, lastProcessedMessageId,
                 pendingFollowUpResponses, pendingContacts, pendingDraftMessages, ttlTimers,
                 polls, inbox, contacts>>

\* The callback of the timed reminder i, sendFollowUpReminder, returns.
FollowUpReminderEnds(i, delivered) ==
  /\ CallbackEnds(i, "ok")
  /\ SendFollowUpReminder(reminders[i].message, delivered)

\* The callback of an immediate reminder returns.
ImmediateReminderEnds(delivered) ==
  \E e \in RunningOf(executions, 0) :
    /\ ImmediateEnds(e, "ok")
    /\ SendFollowUpReminder(e.message, delivered)

\* ------------------------------------------------------------ specifications

Init ==
  /\ now = 0
  /\ ticks = 0
  /\ reminders = <<>>
  /\ executions = {}
  /\ last = Other
  /\ pollInterval = TRUE
  /\ isProcessingMessage = FALSE
  /\ lastProcessedMessageId = 0
  /\ pendingFollowUpResponses = [s \in Senders |-> NoDate]
  /\ pendingContacts = [s \in Senders |-> NoContact]
  /\ pendingDraftMessages = [s \in Senders |-> NoDraft]
  /\ ttlTimers = <<>>
  /\ polls = [p \in 1..MaxPolls |-> Idle]
  /\ inbox = <<>>
  /\ outbox = <<>>
  /\ contacts = <<>>
  /\ failures = 0

\* The ids a caller may pass to cancelReminder: the ids handed out so far and
\* one id that was never handed out.
UnknownId == GenerateReminderId(0, 1)
HandedOut == {reminders[i].id : i \in DOMAIN reminders}
             \cup {e.id : e \in executions}
CallerIds == HandedOut \cup {UnknownId}

\* The dates a caller may pass: before, at and after the current instant.
CallerDates == {t \in {now - 1, now, now + 1} : t >= 0}

\* The scheduler as the application drives it: registrations, timers, sweeps.
TimersNext ==
  \/ \E t \in {now + 1} \cup Wakeups : Tick(t)
  \/ \E m \in Messages, s \in CallerDates, imm \in BOOLEAN :
       CallScheduleReminder(FreshContactId, m, s, imm)
  \/ \E o \in {"ok", "raised"} : ImmediateSettles(o)
  \/ CleanupCompletedReminders
  \/ \E i \in 1..MaxReminders : TimerFires(i)
  \/ \E i \in 1..MaxReminders, o \in {"ok", "raised"} : TimerCallbackDone(i, o)

SpecTimers == Init /\ [][TimersNext]_vars

\* The date of a caller that registers reminders it may cancel later: the
\* minute after the registration.
CancellableDates == {now + 1}

\* The scheduler driven by a caller that registers timed reminders and may
\* cancel, at any moment, any id it holds or an id never handed out.
SchedNext ==
  \/ \E t \in {now + 1} \cup Wakeups : Tick(t)
  \/ \E m \in Messages, s \in CancellableDates :
       CallScheduleReminder(FreshContactId, m, s, FALSE)
  \/ \E id \in CallerIds : CallCancelReminder(id)
  \/ CleanupCompletedReminders
  \/ \E i \in 1..MaxReminders : TimerFires(i)
  \/ \E i \in 1..MaxReminders, o \in {"ok", "raised"} : TimerCallbackDone(i, o)

SpecSched == Init /\ [][SchedNext]_vars

\* The Map holds a reminder that a sweep removes.
Sweepable == \E i \in DOMAIN reminders : reminders[i].live /\ reminders[i].status # "pending"

\* The texts MyPhone sends in a run.
InboundTexts == {"met ann at expo", "met bob at fair, he builds robots", "cancel",
                 "summary", "now", "tomorrow", "no", "in 0 minutes", "blah"}

\* The invocation of checkForNewMessages of a polling loop whose every
\* invocation has returned before the next tick of the interval.
OnePoll == {1}

\* The application with one invocation of checkForNewMessages at a time: the
\* chat, the polling loop, the handlers, the timers.
Next ==
  \/ \E t \in {now + 1} \cup Wakeups : Tick(t)
  \/ \E text \in InboundTexts : MessageArrives(MyPhone, text)
  \/ MessageArrives(Friend, "blah")
  \/ \E p \in OnePoll : PollTick(p)
  \/ \E p \in OnePoll : GetMessagesFails(p)
  \/ \E p \in OnePoll : GetMessagesReturns(p)
  \/ \E p \in OnePoll, ok \in BOOLEAN : CalendarReturns(p, ok)
  \/ \E p \in OnePoll, ok \in BOOLEAN : TopicSentenceReturns(p, ok)
  \/ \E p \in OnePoll, ok \in BOOLEAN : SendReturns(p, ok)
  \/ \E p \in OnePoll, ok \in BOOLEAN : AddContactReturns(p, ok)
  \/ \E p \in OnePoll, ok \in BOOLEAN : UpdateContactReturns(p, ok)
  \/ \E p \in OnePoll, ok \in BOOLEAN : GetContactSummaryReturns(p, ok)
  \/ TtlExpires
  \/ Sweepable /\ CleanupCompletedReminders
  \/ \E i \in DOMAIN reminders : TimerFires(i)
  \/ \E i \in DOMAIN reminders, delivered \in BOOLEAN : FollowUpReminderEnds(i, delivered)
  \/ \E delivered \in BOOLEAN : ImmediateReminderEnds(delivered)

Spec == Init /\ [][Next]_vars

\* The texts MyPhone sends while invocations overlap.
OverlapTexts == {"met ann at expo", "met bob at fair, he builds robots", "cancel",
                 "summary", "now"}

\* The application within one minute, with the invocations of
\* checkForNewMessages that the interval starts while earlier ones are still
\* suspended.
OverlapNext ==
  \/ \E text \in OverlapTexts : MessageArrives(MyPhone, text)
  \/ \E p \in 1..MaxPolls : PollTick(p)
  \/ \E p \in 1..MaxPolls : GetMessagesFails(p)
  \/ \E p \in 1..MaxPolls : GetMessagesReturns(p)
  \/ \E p \in 1..MaxPolls, ok \in BOOLEAN : CalendarReturns(p, ok)
  \/ \E p \in 1..MaxPolls, ok \in BOOLEAN : TopicSentenceReturns(p, ok)
  \/ \E p \in 1..MaxPolls, ok \in BOOLEAN : SendReturns(p, ok)
  \/ \E p \in 1..MaxPolls, ok \in BOOLEAN : AddContactReturns(p, ok)
  \/ \E p \in 1..MaxPolls, ok \in BOOLEAN : UpdateContactReturns(p, ok)
  \/ \E p \in 1..MaxPolls, ok \in BOOLEAN : GetContactSummaryReturns(p, ok)
  \/ \E delivered \in BOOLEAN : ImmediateReminderEnds(delivered)

SpecOverlap == Init /\ [][OverlapNext]_vars


\* The messages of a run in which an interaction begins after an earlier one
\* has ended: one more than a trigger and its reply.
ExpiryMessages == MaxMessages + 1

\* The texts of such a run: a trigger and the replies that end an interaction.
ExpiryTexts == {"met ann at expo", "cancel", "no"}

\* The application with one invocation of checkForNewMessages at a time and
\* collaborators that do not fail: interactions that begin, end and expire.
ExpiryNext ==
  \/ \E t \in {now + 1} \cup Wakeups : Tick(t)
  \/ \E text \in ExpiryTexts : Len(inbox) < ExpiryMessages /\ Arrives(MyPhone, text)
  \/ \E p \in OnePoll : PollTick(p)
  \/ \E p \in OnePoll : GetMessagesReturns(p)
  \/ \E p \in OnePoll : CalendarReturns(p, TRUE)
  \/ \E p \in OnePoll : SendReturns(p, TRUE)
  \/ \E p \in OnePoll : AddContactReturns(p, TRUE)
  \/ \E p \in OnePoll : UpdateContactReturns(p, TRUE)
  \/ TtlExpires

SpecExpiry == Init /\ [][ExpiryNext]_vars

\* The texts passed to the classifier of scheduling replies.
ClassifyTexts == {"now", "NOW ", "Send It", "immediately", "now or tomorrow",
                  "in 2 hours from now", "tomorrow", "Tomorrow", "morning", "no", "never",
                  "no, in 2 hours", "not friday", "afternoon", "in 2 hours", "in 1 day",
                  "in 0 minutes", "in 1 minute", "in 3 mins", "in  2 hours",
                  "in 2 hours on friday", "friday", "sunday", "monday", "blah", "cancel",
                  "met ann at expo", ""}

\* The instants at which the process may start: midnight and 10:00 of a
\* Sunday, a Thursday and a Friday.
StartInstants == {d * MinutesPerDay + h * MinutesPerHour : d \in {0, 4, 5}, h \in {0, 10}}

\* The state after construction, at any of these instants.
InitAtAnyInstant ==
  /\ now \in StartInstants
  /\ ticks = 0
  /\ reminders = <<>>
  /\ executions = {}
  /\ last = Other
  /\ pollInterval = TRUE
  /\ isProcessingMessage = FALSE
  /\ lastProcessedMessageId = 0
  /\ pendingFollowUpResponses = [s \in Senders |-> NoDate]
  /\ pendingContacts = [s \in Senders |-> NoContact]
  /\ pendingDraftMessages = [s \in Senders |-> NoDraft]
  /\ ttlTimers = <<>>
  /\ polls = [p \in 1..MaxPolls |-> Idle]
  /\ inbox = <<>>
  /\ outbox = <<>>
  /\ contacts = <<>>
  /\ failures = 0

\* The classifier of the scheduler, called with any of the texts.
ClassifyNext ==
  \/ \E response \in ClassifyTexts : CallParseSchedulingResponse(response)
  \/ \E response \in ClassifyTexts : CallIsValidSchedulingResponse(response)

SpecClassify == InitAtAnyInstant /\ [][ClassifyNext]_vars

\* The texts MyPhone sends in a dialog: triggers, commands and replies.
DialogTexts == {"met ann at expo", "met bob at fair, he builds robots",
                "met ann at sales summary", "cancel",
                " Cancel ", "summary", "now", "tomorrow", "no", "in 2 hours", "friday",
                "blah"}

\* The application within one minute, with one invocation of
\* checkForNewMessages at a time: the chat, the polling loop and the handlers
\* with collaborators that may fail.
DialogNext ==
  \/ \E text \in DialogTexts : MessageArrives(MyPhone, text)
  \/ \E p \in OnePoll : PollTick(p)
  \/ \E p \in OnePoll : GetMessagesFails(p)
  \/ \E p \in OnePoll : GetMessagesReturns(p)
  \/ \E p \in OnePoll, ok \in BOOLEAN : CalendarReturns(p, ok)
  \/ \E p \in OnePoll, ok \in BOOLEAN : TopicSentenceReturns(p, ok)
  \/ \E p \in OnePoll, ok \in BOOLEAN : SendReturns(p, ok)
  \/ \E p \in OnePoll, ok \in BOOLEAN : AddContactReturns(p, ok)
  \/ \E p \in OnePoll, ok \in BOOLEAN : UpdateContactReturns(p, ok)
  \/ \E p \in OnePoll, ok \in BOOLEAN : GetContactSummaryReturns(p, ok)
  \/ \E delivered \in BOOLEAN : ImmediateReminderEnds(delivered)

SpecDialog == Init /\ [][DialogNext]_vars

\* The texts of a run in which a draft is lost: a trigger, the command that
\* clears the pending data, and a reply.
LostTexts == {"met ann at expo", "cancel", "blah"}

\* A poll tick that finds the previous invocation still suspended.
TwoPolls == {1, 2}

\* The application with two overlapping invocations of checkForNewMessages,
\* on the texts that make one invocation clear the drafts while the other
\* is about to raise the flag; of the collaborators only the chat fails.
LostNext ==
  \/ \E text \in LostTexts : MessageArrives(MyPhone, text)
  \/ \E p \in TwoPolls : PollTick(p)
  \/ \E p \in TwoPolls : GetMessagesReturns(p)
  \/ \E p \in TwoPolls : CalendarReturns(p, TRUE)
  \/ \E p \in TwoPolls, ok \in BOOLEAN : SendReturns(p, ok)

SpecLost == Init /\ [][LostNext]_vars

\* The failures of a run in which the error messages of a failed handling
\* cannot be sent either: the failure that is reported and the sends of the
\* three catch blocks around it.
CleanupFailures == MaxFailures + 3

\* A collaborator call of such a run returns (ok) or raises.
OutcomeInOutage(ok) ==
  /\ ok \/ failures < CleanupFailures
  /\ failures' = IF ok THEN failures ELSE failures + 1

\* imessage.send returns or raises.
SendEnds(p, ok) ==
  /\ Suspended(p, {"send"})
  /\ OutcomeInOutage(ok)
  /\ Becomes(p, AfterSend(World(p), ok, now))

\* database.addContact returns or raises.
AddContactEnds(p, ok) ==
  /\ Suspended(p, {"addContact"})
  /\ OutcomeInOutage(ok)
  /\ Becomes(p, AfterAddContact(World(p), ok, now))

\* database.updateContact returns or raises.
UpdateContactEnds(p, ok) ==
  /\ Suspended(p, {"updateCompleted", "updateStatus"})
  /\ OutcomeInOutage(ok)
  /\ Becomes(p, AfterUpdateContact(World(p), ok))

\* The texts of such a run: a trigger and the replies that end an interaction.
CleanupTexts == {"met ann at expo", "cancel", "no", "now", "blah"}

\* The application with one invocation of checkForNewMessages at a time, in
\* which the chat and the database may fail one after the other.
CleanupNext ==
  \/ \E text \in CleanupTexts : MessageArrives(MyPhone, text)
  \/ \E p \in OnePoll : PollTick(p)
  \/ \E p \in OnePoll : GetMessagesReturns(p)
  \/ \E p \in OnePoll : CalendarReturns(p, TRUE)
  \/ \E p \in OnePoll, ok \in BOOLEAN : SendEnds(p, ok)
  \/ \E p \in OnePoll, ok \in BOOLEAN : AddContactEnds(p, ok)
  \/ \E p \in OnePoll, ok \in BOOLEAN : UpdateContactEnds(p, ok)
  \/ ImmediateReminderEnds(TRUE)

SpecCleanup == Init /\ [][CleanupNext]_vars

\* The messages of a run in which `cancel' arrives after a reminder has been
\* registered, with or without a pending interaction: a trigger, its reply,
\* and a trigger and `cancel', or `cancel' alone.
CancelMessages == MaxMessages + 2

\* The texts of such a run.
CancelTexts == {"met ann at expo", "in 1 minute", "cancel"}

\* No invocation of checkForNewMessages is in flight: a handling ends within
\* the minute in which it began.
Quiet == \A p \in DOMAIN polls : polls[p].pc = "idle"

\* The sender writes when the previous message has been handled.
Answered == lastProcessedMessageId = Len(inbox)

\* The application with one invocation of checkForNewMessages at a time and
\* collaborators that do not fail: reminders are registered and fire, and
\* `cancel' arrives in between.
CancelNext ==
  \/ \E t \in Wakeups : Quiet /\ Tick(t)
  \/ \E text \in CancelTexts :
       Len(inbox) < CancelMessages /\ Answered /\ Arrives(MyPhone, text)
  \/ \E p \in OnePoll : PollTick(p)
  \/ \E p \in OnePoll : GetMessagesReturns(p)
  \/ \E p \in OnePoll : CalendarReturns(p, TRUE)
  \/ \E p \in OnePoll : SendReturns(p, TRUE)
  \/ \E p \in OnePoll : AddContactReturns(p, TRUE)
  \/ \E p \in OnePoll : UpdateContactReturns(p, TRUE)
  \/ \E i \in DOMAIN reminders : TimerFires(i)
  \/ \E i \in DOMAIN reminders : FollowUpReminderEnds(i, TRUE)

SpecCancel == Init /\ [][CancelNext]_vars

\* The texts of a run in which an interaction expires: a trigger, replies
\* and commands.
SilentTexts == {"met ann at expo", "no", "cancel", "summary", "blah"}

\* The application with one invocation of checkForNewMessages at a time and
\* collaborators that do not fail, over the minutes in which the timers of
\* the pending flags run.
SilentNext ==
  \/ \E t \in {now + 1} \cup Wakeups : Quiet /\ Tick(t)
  \/ \E text \in SilentTexts : MessageArrives(MyPhone, text)
  \/ \E p \in OnePoll : PollTick(p)
  \/ \E p \in OnePoll : GetMessagesReturns(p)
  \/ \E p \in OnePoll : CalendarReturns(p, TRUE)
  \/ \E p \in OnePoll : SendReturns(p, TRUE)
  \/ \E p \in OnePoll : AddContactReturns(p, TRUE)
  \/ \E p \in OnePoll : UpdateContactReturns(p, TRUE)
  \/ \E p \in OnePoll : GetContactSummaryReturns(p, TRUE)
  \/ TtlExpires

SpecSilent == Init /\ [][SilentNext]_vars

\* The texts of a run that reaches every collaborator: a trigger with a
\* context, replies and commands.
LoopTexts == {"met bob at fair, he builds robots", "now", "cancel", "summary", "blah"}

\* The call that invocation p awaits returns or raises.
AwaitEnds(p) ==
  \/ GetMessagesFails(p)
  \/ GetMessagesReturns(p)
  \/ \E ok \in BOOLEAN : CalendarReturns(p, ok)
  \/ \E ok \in BOOLEAN : TopicSentenceReturns(p, ok)
  \/ \E ok \in BOOLEAN : SendEnds(p, ok)
  \/ \E ok \in BOOLEAN : AddContactEnds(p, ok)
  \/ \E ok \in BOOLEAN : UpdateContactEnds(p, ok)
  \/ \E ok \in BOOLEAN : GetContactSummaryReturns(p, ok)

\* The polling loop with one invocation of checkForNewMessages at a time and
\* collaborators that fail, the chat and the database several times in a row.
LoopNext ==
  \/ \E text \in LoopTexts : MessageArrives(MyPhone, text)
  \/ \E p \in OnePoll : PollTick(p)
  \/ \E p \in OnePoll : AwaitEnds(p)
  \/ ImmediateReminderEnds(TRUE)

\* Every call that a handler awaits returns or raises in the end: the
\* promises of the collaborators settle.  An invocation suspended at an
\* await has one step, the end of that call, and the step leaves the await;
\* for the calendar the condition is written by its meaning, the invocation
\* is not suspended at the call forever.
Settling(p) ==
  /\ WF_vars(\E ok \in BOOLEAN : TopicSentenceReturns(p, ok))
  /\ WF_vars(\E ok \in BOOLEAN : SendEnds(p, ok))
  /\ WF_vars(\E ok \in BOOLEAN : AddContactEnds(p, ok))
  /\ WF_vars(\E ok \in BOOLEAN : UpdateContactEnds(p, ok))
  /\ WF_vars(\E ok \in BOOLEAN : GetContactSummaryReturns(p, ok))
  /\ []<>(polls[p].pc # "calendar")

SpecLoop == Init /\ [][LoopNext]_vars /\ \A p \in OnePoll : Settling(p)


\* The contacts a caller of the scheduler registers reminders for.
KnownContacts == {1, 2}

\* The scheduler driven by a caller that registers reminders for contacts it
\* already knows, any number of them within one reading of the clock.
IdsNext ==
  \/ \E t \in {now + 1} \cup Wakeups : Tick(t)
  \/ \E c \in KnownContacts, m \in Messages, s \in CallerDates, imm \in BOOLEAN :
       CallScheduleReminder(c, m, s, imm)
  \/ \E o \in {"ok", "raised"} : ImmediateSettles(o)
  \/ CleanupCompletedReminders
  \/ \E i \in 1..MaxReminders : TimerFires(i)
  \/ \E i \in 1..MaxReminders, o \in {"ok", "raised"} : TimerCallbackDone(i, o)

SpecIds == Init /\ [][IdsNext]_vars

\* The polling loop that keeps running: the interval fires again whenever no
\* invocation is in flight, and every call of getMessages ends.
FairPolling(p) ==
  /\ WF_vars(PollTick(p))
  /\ []<>(polls[p].pc # "getMessages")

\* The application within one minute under fair polling: every message is
\* recent at every poll.
SpecFairPolling == SpecLoop /\ \A p \in OnePoll : FairPolling(p)

\* shutdown: the pending flags are cleared and the polling interval is
\* cleared; isShuttingDown is set and never read.
Shutdown ==
  /\ pendingFollowUpResponses' = [s \in Senders |-> NoDate]
  /\ pollInterval' = FALSE
  /\ last' = Other
  /\ UNCHANGED <<now, ticks, reminders, executions, isProcessingMessage,
                 lastProcessedMessageId, pendingContacts, pendingDraftMessages, ttlTimers,
                 polls, inbox, outbox, contacts, failures>>

\* The texts MyPhone sends around a shutdown.
ShutdownTexts == {"met ann at expo", "no", "blah"}

\* The application within one minute, with one invocation of
\* checkForNewMessages at a time and collaborators that do not fail, shut
\* down at any moment.
ShutdownNext ==
  \/ \E text \in ShutdownTexts : MessageArrives(MyPhone, text)
  \/ \E p \in OnePoll : PollTick(p)
  \/ \E p \in OnePoll : GetMessagesReturns(p)
  \/ \E p \in OnePoll : CalendarReturns(p, TRUE)
  \/ \E p \in OnePoll : SendReturns(p, TRUE)
  \/ \E p \in OnePoll : AddContactReturns(p, TRUE)
  \/ \E p \in OnePoll : UpdateContactReturns(p, TRUE)
  \/ Shutdown

SpecShutdown == Init /\ [][ShutdownNext]_vars

\* The texts passed to the classifier by a caller that registers what it
\* returns.
PreferenceTexts == {"now", "tomorrow", "no", "never", "in 2 hours", "in 0 minutes", "friday",
                    "not friday", "now or tomorrow", "blah", ""}

\* The scheduler driven by a caller that classifies a reply and registers
\* the preference returned.
PreferenceNext ==
  \/ \E response \in PreferenceTexts : CallParseSchedulingResponse(response)
  \/ \E m \in Messages : CallScheduleBasedOnPreference(FreshContactId, m)

SpecPreference == InitAtAnyInstant /\ [][PreferenceNext]_vars
\* ------------------------------------------------------------------ claims

\* Invocation p of checkForNewMessages is inside handleDetectedMessage.
Handling(p) == polls[p].pc \notin {"idle", "getMessages"}

\* Invocation p is inside handleSchedulingResponse, past the read of the
\* pending flag of its sender.
Replying(p) ==
  \/ polls[p].pc \in {"addContact", "updateCompleted", "updateStatus"}
  \/ /\ polls[p].pc = "send"
     /\ polls[p].at \in {"srMissing", "srCancel", "srReprompt", "srNoReminder",
                         "srConfirm", "srError"}

\* C1: at most one inbound message is handled at a time, whatever the
\* interleaving of the ticks of the polling loop and whatever the message.
C1_OneMessageAtATime ==
  Cardinality({p \in DOMAIN polls : Handling(p)}) <= 1

\* C2: from the read of the pending flag of a sender to the end of the act on
\* it, no other invocation reads or changes the pending interaction of that
\* sender: while one invocation is replying, no other one starts to handle a
\* message of the sender (which reads the flag) and no step of another one
\* changes what is stored for the sender.
C2_CriticalSection ==
  [][\A p \in DOMAIN polls : \A q \in DOMAIN polls \ {p} :
       (Replying(p) /\ polls'[q] # polls[q])
         => LET s == polls[p].sender
            IN  /\ ~(polls[q].pc = "getMessages" /\ Handling(q)' /\ polls'[q].sender = s)
                /\ pendingFollowUpResponses'[s] = pendingFollowUpResponses[s]
                /\ pendingContacts'[s] = pendingContacts[s]
                /\ pendingDraftMessages'[s] = pendingDraftMessages[s]]_vars

\* The invocations of the action made for reminder id.
ExecutionsOf(id) == {e \in executions : e.id = id}

\* C3: for every reminder id the action is invoked at most once, whatever
\* the number of sweeps before, during and after the fire.
C3_AtMostOncePerId ==
  \A id \in HandedOut : Cardinality(ExecutionsOf(id)) <= 1

\* A timed reminder has fired, a year has passed since (its pattern matched
\* again) and a sweep has just removed it.
C3_Witness ==
  /\ last.op = "cleanup"
  /\ \E i \in DOMAIN reminders :
       /\ reminders[i].status = "sent"
       /\ ~reminders[i].live
       /\ now >= reminders[i].lastFire + YearLen
       /\ ExecutionsOf(reminders[i].id) # {}

\* C4: the status of a reminder changes only from pending to sent or from
\* pending to cancelled, and cancelReminder called for a reminder that has
\* fired (its callback has marked it sent) changes nothing.
C4_StatusTransitions ==
  [][/\ \A i \in DOMAIN reminders :
          reminders'[i].status # reminders[i].status
            => /\ reminders[i].status = "pending"
               /\ reminders'[i].status \in {"sent", "cancelled"}
     /\ (/\ last'.op = "cancelReminder"
         /\ \E i \in DOMAIN reminders :
              reminders[i].id = last'.id /\ reminders[i].status = "sent")
          => /\ ~last'.ret
             /\ reminders' = reminders
             /\ executions' = executions]_vars

\* cancelReminder has just been called for a fired reminder still in the Map.
C4_Witness ==
  /\ last.op = "cancelReminder"
  /\ \E i \in DOMAIN reminders :
       /\ reminders[i].id = last.id
       /\ reminders[i].status = "sent"
       /\ reminders[i].live

\* C5: cancelReminder(id) returns true exactly when the Map holds a pending
\* reminder under id, which is then stopped, cancelled and removed; otherwise
\* it returns false and no reminder, nor the Map, changes.
C5_CancelReminder ==
  [][last'.op = "cancelReminder"
       => LET found == {i \in DOMAIN reminders :
                          /\ reminders[i].live
                          /\ reminders[i].id = last'.id
                          /\ reminders[i].status = "pending"}
          IN  /\ last'.ret <=> found # {}
              /\ DOMAIN reminders' = DOMAIN reminders
              /\ \A i \in found :
                   /\ reminders'[i].status = "cancelled"
                   /\ ~reminders'[i].task
                   /\ ~reminders'[i].live
              /\ \A i \in DOMAIN reminders \ found : reminders'[i] = reminders[i]
              /\ executions' = executions]_vars

\* cancelReminder has just returned true for a pending reminder.
C5_Witness ==
  /\ last.op = "cancelReminder"
  /\ last.ret
  /\ \E i \in DOMAIN reminders :
       /\ reminders[i].id = last.id
       /\ reminders[i].status = "cancelled"
       /\ ~reminders[i].live
       /\ ~reminders[i].task

\* C6: a reminder registered with a date not later than the registration
\* fires during the registration and is recorded as sent; none is pending
\* with a date earlier than its registration.
C6_PastDateFiresAtOnce ==
  \A i \in DOMAIN reminders :
    reminders[i].scheduledFor <= reminders[i].startedAt
      => /\ reminders[i].status = "sent"
         /\ ExecutionsOf(reminders[i].id) # {}

\* C7: when the action of a timed reminder raises, the failure is caught, the
\* reminder is marked sent, it is not left pending and the action is not
\* invoked again.
C7_FailedFireIsSent ==
  \A e \in executions :
    (e.how # 0 /\ e.outcome = "raised")
      => /\ reminders[e.how].status = "sent"
         /\ ~reminders[e.how].task
         /\ ~reminders[e.how].firing
         /\ ExecutionsOf(e.id) = {e}

\* The action of a timed reminder raised, a year has passed, and the reminder
\* is still in the Map.
C7_Witness ==
  \E e \in executions :
    /\ e.how # 0
    /\ e.outcome = "raised"
    /\ reminders[e.how].live
    /\ now >= reminders[e.how].lastFire + YearLen

\* C8: a sweep removes from the Map every reminder that is not pending and
\* leaves every pending reminder as it was; after it the Map holds pending
\* reminders only.
C8_Cleanup ==
  [][last'.op = "cleanup"
       => /\ DOMAIN reminders' = DOMAIN reminders
          /\ \A i \in DOMAIN reminders :
               /\ reminders[i].status = "pending" => reminders'[i] = reminders[i]
               /\ reminders[i].status # "pending" => ~reminders'[i].live
               /\ reminders'[i] = [reminders[i] EXCEPT !.live = reminders'[i].live]
          /\ \A i \in DOMAIN reminders' :
               reminders'[i].live => reminders'[i].status = "pending"
          /\ executions' = executions]_vars

\* A sweep has just removed a fired reminder and kept a pending one, whose
\* task still runs.
C8_Witness ==
  /\ last.op = "cleanup"
  /\ \E i, j \in DOMAIN reminders :
       /\ reminders[i].status = "sent" /\ ~reminders[i].live
       /\ reminders[j].status = "pending" /\ reminders[j].live /\ reminders[j].task

\* C9: a sender has at most one pending interaction, and once a trigger has
\* installed its interaction the draft contact and the draft message stored
\* for the sender are both the ones of that trigger: nothing of another
\* trigger is left.
C9_ReplacedAsAWhole ==
  \A s \in Senders :
    (/\ Has(pendingFollowUpResponses, s)
     /\ pendingContacts[s] # NoContact
     /\ pendingDraftMessages[s] # NoDraft)
      => /\ pendingDraftMessages[s].name = pendingContacts[s].name
         /\ pendingDraftMessages[s].event = pendingContacts[s].event

\* C10: a pending flag set at T is not read as present at T + TTL or later,
\* also when its timer has not run yet: an invocation that routes a message
\* to handleSchedulingResponse does so before the flag of the sender is TTL
\* old.  The clock counts whole minutes, so a flag read at minute m was set
\* less than TTL earlier only if m <= T + TTL.
C10_NotObservedAfterTtl ==
  [][\A p \in DOMAIN polls :
       (polls[p].pc = "getMessages" /\ Replying(p)')
         => now <= pendingFollowUpResponses[polls'[p].sender] + TTL]_vars

\* C11: the pending flag of a sender expires TTL after it was set, whatever
\* happened to the sender's earlier interactions: a step of a timer (a step
\* that is no step of a handler) deletes the flag of a sender only when the
\* flag is TTL old.  Only timers that were not yet due when the flag was set
\* are considered.
C11_ExpiresAtOwnTtl ==
  [][\A s \in Senders :
       (/\ polls' = polls
        /\ Has(pendingFollowUpResponses, s)
        /\ ~Has(pendingFollowUpResponses', s)
        /\ ttlTimers # <<>>
        /\ pendingFollowUpResponses[s] < Head(ttlTimers).due)
         => now >= pendingFollowUpResponses[s] + TTL]_vars

\* The directives a ScheduleOptions value holds.
Directives(options) ==
  {d \in {"Now", "Tomorrow", "NoReminder", "CustomAt"} :
     \/ d = "Now" /\ options.sendNow
     \/ d = "Tomorrow" /\ options.sendTomorrow
     \/ d = "NoReminder" /\ options.noReminder
     \/ d = "CustomAt" /\ options.customDate # NoDate}

\* The offsets of the matches of "in N hours", "in N days" and "in N minutes"
\* in s.
RelativeOffsets(s) ==
  {AmountAt(s, i, TRUE).amount * MinutesPerHour :
     i \in {j \in 1..Len(s) : /\ AmountAt(s, j, TRUE).found
                               /\ OccursAt(s, Chars("hour"), AmountAt(s, j, TRUE).unit)}}
  \cup {AmountAt(s, i, TRUE).amount * MinutesPerDay :
     i \in {j \in 1..Len(s) : /\ AmountAt(s, j, TRUE).found
                               /\ OccursAt(s, Chars("day"), AmountAt(s, j, TRUE).unit)}}
  \cup {AmountAt(s, i, FALSE).amount :
     i \in {j \in 1..Len(s) : /\ AmountAt(s, j, FALSE).found
                               /\ OccursAt(s, Chars("min"), AmountAt(s, j, FALSE).unit)}}

\* The days of the week (0 is Sunday) that s names.
NamedDays(s) == {k - 1 : k \in {j \in DOMAIN DayNames : Includes(s, DayNames[j])}}

\* The first of the rules 1 to 5 that the trimmed lower-case text s matches;
\* 6 when none does.
FirstRule(s) ==
  IF SaysNow(s) THEN 1
  ELSE IF SaysTomorrow(s) THEN 2
  ELSE IF SaysNo(s) THEN 3
  ELSE IF RelativeOffsets(s) # {} THEN 4
  ELSE IF NamedDays(s) # {} THEN 5
  ELSE 6

\* C12: parseSchedulingResponse returns one directive for every text, the
\* one of the first rule that matches in the order Now, Tomorrow, NoReminder,
\* relative time, weekday (Tomorrow when no rule matches); a relative time is
\* the instant of the call plus the offset, a weekday is 9:00 of a day of
\* that name.
C12_FirstRuleWins ==
  last.op = "parseSchedulingResponse" =>
    LET s == Trim(ToLowerCase(Chars(last.response)))
        rule == FirstRule(s)
        date == last.ret.customDate
    IN  /\ Directives(last.ret) =
             {<<"Now", "Tomorrow", "NoReminder", "CustomAt", "CustomAt", "Tomorrow">>[rule]}
        /\ rule = 4 => date - last.at \in RelativeOffsets(s)
        /\ rule = 5 => /\ GetDay(date) \in NamedDays(s)
                       /\ date = StartOfDay(date) + MorningHour * MinutesPerHour

\* A text that matches the rule of NoReminder and the rule of a relative time
\* has been classified.
C12_Witness ==
  /\ last.op = "parseSchedulingResponse"
  /\ SaysNo(Trim(ToLowerCase(Chars(last.response))))
  /\ RelativeOffsets(Trim(ToLowerCase(Chars(last.response)))) # {}
  /\ last.ret.noReminder

\* C13: isValidSchedulingResponse returns false exactly for the texts for
\* which parseSchedulingResponse returns through its default, and the two
\* functions stop at the same rule.
C13_ValidIffNotDefault ==
  last.op = "isValidSchedulingResponse" =>
    /\ last.ret = FALSE <=> ParseRule(Chars(last.response), last.at) = 5
    /\ ValidRule(Chars(last.response), last.at) = ParseRule(Chars(last.response), last.at)
    /\ last.ret = (ValidRule(Chars(last.response), last.at) # 5)

\* isValidSchedulingResponse has rejected a text, for which
\* parseSchedulingResponse returns its default, Tomorrow.
C13_Witness ==
  /\ last.op = "isValidSchedulingResponse"
  /\ ~last.ret
  /\ ParseSchedulingResponse(Chars(last.response), last.at).sendTomorrow

\* Invocation p takes a message in this step: getMessages has returned and
\* handleDetectedMessage has run up to its first await.
Takes(p) == polls[p].pc = "getMessages" /\ Handling(p)'

\* The text of the message that invocation p has taken after this step.
Taken(p) == Chars(inbox[polls'[p].msg].text)

\* This step is the return of a collaborator call of invocation p that did
\* not raise.
Resumes(p) == polls'[p] # polls[p] /\ polls[p].pc # "getMessages" /\ failures' = failures

\* The send of statement at of invocation p returns in this step.
Sent(p, at) ==
  /\ polls[p].pc = "send" /\ polls[p].at = at /\ Resumes(p)
  /\ Len(outbox') = Len(outbox) + 1
  /\ outbox'[Len(outbox')].kind = at
  /\ SubSeq(outbox', 1, Len(outbox)) = outbox

\* What the controller stores for a sender.
PendingData(s) ==
  <<pendingFollowUpResponses[s], pendingContacts[s], pendingDraftMessages[s]>>

\* The sender has a pending interaction: the flag and both drafts.
IsPending(s) ==
  /\ Has(pendingFollowUpResponses, s)
  /\ pendingContacts[s] # NoContact
  /\ pendingDraftMessages[s] # NoDraft

\* What the handling of a message may persist or register.
Committed == <<contacts, reminders, executions>>

\* The text is the command `cancel'.
IsCancel(text) == Trim(ToLowerCase(text)) = Chars("cancel")

\* C14: a reply of a pending sender that is not `cancel' and that
\* isValidSchedulingResponse rejects leads to the send of the re-prompt and
\* to nothing else: taking the message and sending the re-prompt leave the
\* pending flag, the draft contact, the draft message, the contacts and the
\* reminders as they are, and the handling ends with the re-prompt.
C14_RepromptOnly ==
  [][\A p \in DOMAIN polls : \A s \in Senders :
       /\ (/\ Takes(p)
           /\ polls'[p].sender = s
           /\ IsPending(s)
           /\ ~IsCancel(Taken(p))
           /\ ~IsValidSchedulingResponse(Taken(p), now))
            => /\ polls'[p].pc = "send" /\ polls'[p].at = "srReprompt"
               /\ PendingData(s)' = PendingData(s)
               /\ Committed' = Committed
               /\ outbox' = outbox
       /\ (/\ polls[p].pc = "send" /\ polls[p].at = "srReprompt"
           /\ polls[p].sender = s
           /\ Resumes(p))
            => /\ Sent(p, "srReprompt")
               /\ polls'[p] = Idle
               /\ PendingData(s)' = PendingData(s)
               /\ Committed' = Committed]_vars

\* A re-prompt has been sent and the interaction is still pending, with
\* nothing persisted.
C14_Witness ==
  /\ \E i \in DOMAIN outbox : outbox[i].kind = "srReprompt"
  /\ IsPending(MyPhone)
  /\ contacts = <<>> /\ reminders = <<>> /\ executions = {}
  /\ polls[1] = Idle

\* The sender has no pending interaction: no flag and no drafts.
IsIdle(s) ==
  /\ ~Has(pendingFollowUpResponses, s)
  /\ pendingContacts[s] = NoContact
  /\ pendingDraftMessages[s] = NoDraft

\* C15: `cancel' from a pending sender, in any case and with surrounding
\* whitespace, leads to the send of `Cancelled. Contact not saved.' and to
\* nothing else; when that send returns the notice is the only new output,
\* the flag and both drafts of the sender are removed, no contact is stored
\* and no reminder is registered, and the handling is over.
C15_CancelDiscards ==
  [][\A p \in DOMAIN polls : \A s \in Senders :
       /\ (/\ Takes(p)
           /\ polls'[p].sender = s
           /\ IsPending(s)
           /\ IsCancel(Taken(p)))
            => /\ polls'[p].pc = "send" /\ polls'[p].at = "srCancel"
               /\ Committed' = Committed
               /\ outbox' = outbox
       /\ (/\ polls[p].pc = "send" /\ polls[p].at = "srCancel"
           /\ polls[p].sender = s
           /\ Resumes(p))
            => /\ Sent(p, "srCancel")
               /\ polls'[p] = Idle
               /\ IsIdle(s)'
               /\ Committed' = Committed]_vars

\* The reply ` Cancel ' has been handled: the notice is out, the sender has
\* no pending data and nothing was stored.
C15_Witness ==
  /\ lastProcessedMessageId \in DOMAIN inbox
  /\ inbox[lastProcessedMessageId].text = " Cancel "
  /\ \E i \in DOMAIN outbox : outbox[i].kind = "srCancel"
  /\ IsIdle(MyPhone)
  /\ contacts = <<>> /\ reminders = <<>>
  /\ polls[1] = Idle

\* The last stored contact is the draft, with the given status.
StoredDraft(draft, all, status) ==
  /\ all # <<>>
  /\ all[Len(all)].name = draft.name
  /\ all[Len(all)].event = draft.event
  /\ all[Len(all)].context = draft.context
  /\ all[Len(all)].followUpStatus = status

\* Invocation p takes a reply of the pending sender s that is not `cancel'
\* and that isValidSchedulingResponse accepts.
TakesReply(p, s) ==
  /\ Takes(p)
  /\ polls'[p].sender = s
  /\ IsPending(s)
  /\ ~IsCancel(Taken(p))
  /\ IsValidSchedulingResponse(Taken(p), now)

\* C16: a reply of a pending sender that is classified noReminder makes
\* the handler store the sender's draft contact (addContact), then set the
\* stored status to `completed' (updateContact), then send the
\* confirmation and clear the sender's pending data; no step of this
\* handling registers a reminder or runs an action.
C16_NoReminderCompletes ==
  [][\A p \in DOMAIN polls : \A s \in Senders :
       /\ (TakesReply(p, s) /\ ParseSchedulingResponse(Taken(p), now).noReminder)
            => /\ polls'[p].pc = "addContact"
               /\ polls'[p].contact = pendingContacts[s]
               /\ polls'[p].schedulePreference.noReminder
               /\ Committed' = Committed
               /\ PendingData(s)' = PendingData(s)
       /\ (/\ polls[p].pc = "addContact" /\ polls[p].schedulePreference.noReminder
           /\ Resumes(p))
            => /\ polls'[p].pc = "updateCompleted"
               /\ Len(contacts') = Len(contacts) + 1
               /\ SubSeq(contacts', 1, Len(contacts)) = contacts
               /\ StoredDraft(polls[p].contact, contacts', "pending")
               /\ polls'[p].contactId = Len(contacts')
               /\ reminders' = reminders /\ executions' = executions
       /\ (polls[p].pc = "updateCompleted" /\ Resumes(p))
            => /\ polls'[p].pc = "send" /\ polls'[p].at = "srNoReminder"
               /\ contacts' = [contacts EXCEPT ![polls[p].contactId].followUpStatus =
                                                   "completed"]
               /\ reminders' = reminders /\ executions' = executions
       /\ (/\ polls[p].pc = "send" /\ polls[p].at = "srNoReminder"
           /\ polls[p].sender = s
           /\ Resumes(p))
            => /\ Sent(p, "srNoReminder")
               /\ polls'[p] = Idle
               /\ IsIdle(s)'
               /\ Committed' = Committed]_vars

\* The reply `no' has been handled: the contact is stored as completed,
\* no reminder exists, no action ran and the sender has no pending data.
C16_Witness ==
  /\ Len(contacts) = 1
  /\ contacts[1].followUpStatus = "completed"
  /\ contacts[1].name = "Ann"
  /\ reminders = <<>> /\ executions = {}
  /\ \E i \in DOMAIN outbox : outbox[i].kind = "srNoReminder"
  /\ IsIdle(MyPhone)
  /\ polls[1] = Idle

\* The instant a preference that asks for a later reminder resolves to, for
\* a registration made at t.
ResolvedDate(preference, t) ==
  IF preference.sendTomorrow THEN GetTomorrowMorning(t) ELSE preference.customDate

\* The live reminders of the Map rs, and the invocations of the action in
\* log, for a contact id.
RemindersFor(rs, contactId) ==
  {i \in DOMAIN rs : rs[i].live /\ rs[i].contactId = contactId}

InvocationsFor(log, contactId) == {e \in log : e.contactId = contactId}

\* C17: a reply of a pending sender that is classified sendNow,
\* sendTomorrow or customDate, handled without a collaborator raising,
\* makes the handler (1) store the sender's draft contact once, (2) register
\* one reminder for the new contact id: for sendNow one immediate
\* invocation of the action and nothing stored in the scheduler, otherwise
\* one pending reminder at tomorrow morning or at the custom date, (3) send
\* the confirmation, (4) set the stored status to `sent' for sendNow and
\* to `scheduled' otherwise, with scheduledFollowUp the custom date when
\* there is one, and clear the sender's pending data.
C17_ScheduledOnce ==
  [][\A p \in DOMAIN polls : \A s \in Senders :
       /\ (TakesReply(p, s) /\ ~ParseSchedulingResponse(Taken(p), now).noReminder)
            => /\ polls'[p].pc = "addContact"
               /\ polls'[p].contact = pendingContacts[s]
               /\ polls'[p].draftMessage = pendingDraftMessages[s]
               /\ polls'[p].schedulePreference = ParseSchedulingResponse(Taken(p), now)
               /\ Committed' = Committed
               /\ PendingData(s)' = PendingData(s)
       /\ (/\ polls[p].pc = "addContact" /\ ~polls[p].schedulePreference.noReminder
           /\ Resumes(p))
            => LET preference == polls[p].schedulePreference
                   id == Len(contacts) + 1
               IN  /\ polls'[p].pc = "send" /\ polls'[p].at = "srConfirm"
                   /\ Len(contacts') = id
                   /\ SubSeq(contacts', 1, Len(contacts)) = contacts
                   /\ StoredDraft(polls[p].contact, contacts', "pending")
                   /\ polls'[p].contactId = id
                   /\ RemindersFor(reminders, id) = {} /\ InvocationsFor(executions, id) = {}
                   /\ IF preference.sendNow
                        THEN /\ reminders' = reminders
                             /\ executions \subseteq executions'
                             /\ executions' \ executions = InvocationsFor(executions', id)
                             /\ Cardinality(InvocationsFor(executions', id)) = 1
                             /\ \A e \in InvocationsFor(executions', id) : e.how = 0
                        ELSE /\ executions' = executions
                             /\ Len(reminders') = Len(reminders) + 1
                             /\ SubSeq(reminders', 1, Len(reminders)) = reminders
                             /\ RemindersFor(reminders', id) = {Len(reminders')}
                             /\ reminders'[Len(reminders')].status = "pending"
                             /\ reminders'[Len(reminders')].scheduledFor =
                                  ResolvedDate(preference, now)
       /\ (/\ polls[p].pc = "send" /\ polls[p].at = "srConfirm"
           /\ polls[p].sender = s
           /\ Resumes(p))
            => /\ Sent(p, "srConfirm")
               /\ polls'[p].pc = "updateStatus"
               /\ Committed' = Committed
               /\ PendingData(s)' = PendingData(s)
       /\ (/\ polls[p].pc = "updateStatus"
           /\ polls[p].sender = s
           /\ Resumes(p))
            => LET preference == polls[p].schedulePreference
                   id == polls[p].contactId
               IN  /\ polls'[p] = Idle
                   /\ IsIdle(s)'
                   /\ Len(contacts') = Len(contacts)
                   /\ \A i \in DOMAIN contacts : i # id => contacts'[i] = contacts[i]
                   /\ contacts'[id].name = contacts[id].name
                   /\ contacts'[id].followUpStatus =
                        (IF preference.sendNow THEN "sent" ELSE "scheduled")
                   /\ contacts'[id].scheduledFollowUp = preference.customDate
                   /\ reminders' = reminders /\ executions' = executions
                   /\ outbox' = outbox]_vars

\* A reply with a custom time has been handled: one contact is stored as
\* scheduled for that time, one pending reminder is registered for it at
\* that time, the confirmation is out and the sender has no pending data.
C17_Witness ==
  /\ Len(contacts) = 1
  /\ contacts[1].followUpStatus = "scheduled"
  /\ contacts[1].scheduledFollowUp # NoDate
  /\ Cardinality(RemindersFor(reminders, 1)) = 1
  /\ \A i \in RemindersFor(reminders, 1) : reminders[i].scheduledFor = contacts[1].scheduledFollowUp
  /\ \E i \in DOMAIN outbox : outbox[i].kind = "srConfirm"
  /\ IsIdle(MyPhone)
  /\ polls[1] = Idle

\* The text as handleMessage hands it to the trigger parser.
MessageText(text) == Trim(Trim(text))

\* C18: a text that parseMessage accepts (isValidMeeting), taken from a
\* sender without a pending flag, starts an interaction: the handler
\* stores the parsed contact as the sender's draft and goes on to build
\* the suggestion, and when the suggestion has been sent the sender has
\* the pending flag and both drafts.
C18_ValidTriggerBegins ==
  [][\A p \in DOMAIN polls : \A s \in Senders :
       /\ (/\ Takes(p)
           /\ polls'[p].sender = s
           /\ ~Has(pendingFollowUpResponses, s)
           /\ ParseMessage(MessageText(Taken(p))).isValidMeeting)
            => /\ polls'[p].pc = "calendar"
               /\ pendingContacts'[s].name = Text(ParseMessage(MessageText(Taken(p))).name)
               /\ pendingContacts'[s].event = Text(ParseMessage(MessageText(Taken(p))).event)
       /\ (/\ polls[p].pc = "send" /\ polls[p].at = "suggestion"
           /\ polls[p].sender = s
           /\ Resumes(p))
            => /\ Sent(p, "suggestion")
               /\ polls'[p] = Idle
               /\ IsPending(s)']_vars

\* The text asks for the contact summary.
IsSummaryRequest(text) ==
  \/ Includes(ToLowerCase(MessageText(text)), Chars("summary"))
  \/ Includes(ToLowerCase(MessageText(text)), Chars("recent contacts"))

\* C19: a text that is not a command (cancel, summary) and that
\* parseMessage rejects, taken from a sender without a pending flag, leads
\* to the send of the help message and to nothing else: neither taking the
\* message nor sending the help changes the sender's flag or drafts, the
\* contacts or the reminders.
C19_HelpOnly ==
  [][\A p \in DOMAIN polls : \A s \in Senders :
       /\ (/\ Takes(p)
           /\ polls'[p].sender = s
           /\ ~Has(pendingFollowUpResponses, s)
           /\ ~IsCancel(MessageText(Taken(p)))
           /\ ~IsSummaryRequest(Taken(p))
           /\ ~ParseMessage(MessageText(Taken(p))).isValidMeeting)
            => /\ polls'[p].pc = "send" /\ polls'[p].at = "help"
               /\ PendingData(s)' = PendingData(s)
               /\ Committed' = Committed
               /\ outbox' = outbox
       /\ (/\ polls[p].pc = "send" /\ polls[p].at = "help"
           /\ polls[p].sender = s
           /\ Resumes(p))
            => /\ Sent(p, "help")
               /\ polls'[p] = Idle
               /\ PendingData(s)' = PendingData(s)
               /\ Committed' = Committed]_vars

\* The text `blah' of a sender without a pending interaction has been
\* answered with the help message, and nothing is stored.
C19_Witness ==
  /\ lastProcessedMessageId \in DOMAIN inbox
  /\ inbox[lastProcessedMessageId].text = "blah"
  /\ outbox # <<>>
  /\ outbox[Len(outbox)].kind = "help"
  /\ IsIdle(MyPhone)
  /\ contacts = <<>> /\ reminders = <<>>
  /\ polls[1] = Idle

\* The text is the command `summary'.
IsSummary(text) == Trim(ToLowerCase(MessageText(text))) = Chars("summary")

\* C20: the command `summary' is answered with the contact summary whether
\* or not the sender has a pending flag: the handler that takes it asks the
\* database for the summary, then sends it, and the sender's flag and
\* drafts are the same after each of these steps as before.
C20_SummaryInEitherState ==
  [][\A p \in DOMAIN polls : \A s \in Senders :
       /\ (/\ Takes(p)
           /\ polls'[p].sender = s
           /\ IsSummary(Taken(p)))
            => /\ polls'[p].pc = "getSummary"
               /\ PendingData(s)' = PendingData(s)
       /\ (/\ polls[p].pc = "getSummary"
           /\ polls[p].sender = s
           /\ Resumes(p))
            => /\ polls'[p].pc = "send" /\ polls'[p].at = "summary"
               /\ PendingData(s)' = PendingData(s)
       /\ (/\ polls[p].pc = "send" /\ polls[p].at = "summary"
           /\ polls[p].sender = s
           /\ Resumes(p))
            => /\ Sent(p, "summary")
               /\ polls'[p] = Idle
               /\ PendingData(s)' = PendingData(s)]_vars

\* C21: a text that parseMessage accepts, taken from a pending sender,
\* replaces the pending draft: the handler stores the contact parsed from
\* the new text as the sender's draft contact and goes on to build the new
\* suggestion, no contact is stored for the earlier draft, and when the
\* new suggestion has been sent the sender is pending with the new drafts.
C21_SecondTriggerOverwrites ==
  [][\A p \in DOMAIN polls : \A s \in Senders :
       /\ (/\ Takes(p)
           /\ polls'[p].sender = s
           /\ IsPending(s)
           /\ ParseMessage(MessageText(Taken(p))).isValidMeeting)
            => /\ polls'[p].pc = "calendar"
               /\ pendingContacts'[s].name = Text(ParseMessage(MessageText(Taken(p))).name)
               /\ pendingContacts'[s].event = Text(ParseMessage(MessageText(Taken(p))).event)
               /\ Has(pendingFollowUpResponses', s)
               /\ Committed' = Committed
       /\ (/\ polls[p].pc = "send" /\ polls[p].at = "suggestion"
           /\ polls[p].sender = s
           /\ Resumes(p))
            => /\ IsPending(s)'
               /\ pendingContacts'[s] = polls[p].contact
               /\ pendingDraftMessages'[s] = polls[p].draftMessage
               /\ Committed' = Committed]_vars

\* The sender's flag is set and a draft is absent.
LostDraft(s) ==
  /\ Has(pendingFollowUpResponses, s)
  /\ (pendingContacts[s] = NoContact \/ pendingDraftMessages[s] = NoDraft)

\* C22: a message taken from a sender whose flag is set and whose draft
\* contact or draft message is absent leads to the send of the error
\* `Contact data not found' and to nothing else; when that send returns
\* the error is the only new output, the sender has no flag and no drafts,
\* no contact is stored and no reminder is registered.
C22_LostDraftFailsClosed ==
  [][\A p \in DOMAIN polls : \A s \in Senders :
       /\ (/\ Takes(p)
           /\ polls'[p].sender = s
           /\ LostDraft(s))
            => /\ polls'[p].pc = "send" /\ polls'[p].at = "srMissing"
               /\ Committed' = Committed
               /\ outbox' = outbox
       /\ (/\ polls[p].pc = "send" /\ polls[p].at = "srMissing"
           /\ polls[p].sender = s
           /\ Resumes(p))
            => /\ Sent(p, "srMissing")
               /\ polls'[p] = Idle
               /\ IsIdle(s)'
               /\ Committed' = Committed]_vars

\* A reply has been answered with the error for a lost draft: the sender
\* has no pending data and nothing is stored.
C22_Witness ==
  /\ outbox # <<>>
  /\ outbox[Len(outbox)].kind = "srMissing"
  /\ IsIdle(MyPhone)
  /\ contacts = <<>> /\ reminders = <<>> /\ executions = {}
  /\ \A p \in DOMAIN polls : polls[p] = Idle

\* This step is the return of a collaborator call of invocation p that
\* raised.
Raises(p) == polls'[p] # polls[p] /\ polls[p].pc # "getMessages" /\ failures' # failures

\* C23: when addContact raises, the handler stores no contact, registers
\* no reminder and runs no action, and goes to the send of the error
\* message; when that send returns the error is the only new output, still
\* nothing is stored or registered, and the sender has no flag and no
\* drafts.
C23_StorageFailureAborts ==
  [][\A p \in DOMAIN polls : \A s \in Senders :
       /\ (polls[p].pc = "addContact" /\ Raises(p))
            => /\ polls'[p].pc = "send" /\ polls'[p].at = "srError"
               /\ polls'[p].contactId = 0
               /\ Committed' = Committed
               /\ outbox' = outbox
       /\ (/\ polls[p].pc = "send" /\ polls[p].at = "srError"
           /\ polls[p].sender = s
           /\ Resumes(p))
            => /\ Sent(p, "srError")
               /\ polls'[p] = Idle
               /\ IsIdle(s)'
               /\ Committed' = Committed]_vars

\* addContact has raised for the reply `now': the handler is about to send
\* the error, nothing is stored or registered and no action has run.
C23_Witness ==
  /\ failures = 1
  /\ polls[1].pc = "send" /\ polls[1].at = "srError"
  /\ polls[1].schedulePreference.sendNow
  /\ polls[1].contactId = 0
  /\ contacts = <<>> /\ reminders = <<>> /\ executions = {}

\* C24: the handling of a message of a pending sender that ends otherwise
\* than with the re-prompt sent leaves the sender with no flag and no
\* drafts, whichever of the handler's awaits returned or raised.  (With one
\* invocation at a time and no expiry, a handling that is in progress
\* while the sender's flag is set is the handling of a reply.)
C24_EveryExitCleansUp ==
  [][\A p \in DOMAIN polls : \A s \in Senders :
       (/\ Handling(p)
        /\ polls[p].sender = s
        /\ Has(pendingFollowUpResponses, s)
        /\ polls'[p] = Idle
        /\ ~(polls[p].at = "srReprompt" /\ Resumes(p)))
         => IsIdle(s)']_vars

\* Invocation p is handling a message whose text is the command `cancel'.
CancelInHand(p) ==
  /\ Handling(p)
  /\ IsCancel(MessageText(Chars(inbox[polls[p].msg].text)))

\* The reminders that are pending, with their task armed.
PendingReminders ==
  {i \in DOMAIN reminders :
     reminders[i].live /\ reminders[i].status = "pending" /\ reminders[i].task}

\* C25: no step of the handling of a `cancel' message, with or without a
\* pending interaction, touches the scheduler: every reminder object is the
\* same after the step as before (status, fire time, task), no reminder is
\* added and no action is invoked, so the pending reminders stay armed.
C25_CancelLeavesScheduler ==
  [][\A p \in DOMAIN polls :
       (\/ Takes(p) /\ IsCancel(MessageText(Taken(p)))
        \/ CancelInHand(p) /\ polls'[p] # polls[p])
         => /\ reminders' = reminders
            /\ executions' = executions
            /\ PendingReminders' = PendingReminders]_vars

\* A reminder was registered, `cancel' was then answered, and the reminder
\* has fired after that: its message is the last output.
C25_Witness ==
  /\ \E i, j, k \in DOMAIN outbox :
       /\ i < j /\ j < k
       /\ outbox[i].kind = "srConfirm"
       /\ outbox[j].kind \in {"srCancel", "ccCancelled", "ccReady"}
       /\ outbox[k].kind = "reminder"
  /\ \E i \in DOMAIN reminders : reminders[i].status = "sent"

\* The interaction of the sender has expired: the flag is gone and the
\* drafts, which the timer does not delete, are still stored.
Expired(s) ==
  /\ ~Has(pendingFollowUpResponses, s)
  /\ pendingContacts[s] # NoContact
  /\ pendingDraftMessages[s] # NoDraft

\* C26: the expiry of a pending flag is silent and the sender is idle
\* afterwards.  The step of the timer that deletes the flag sends nothing,
\* stores no contact, registers no reminder and runs no action; and the
\* next message taken from a sender whose interaction has expired is
\* handled as a message of an idle sender (a command, a trigger, or the
\* help message), without a contact being stored or a reminder registered.
C26_ExpiryIsSilent ==
  [][/\ \A s \in Senders :
          (/\ polls' = polls
           /\ Has(pendingFollowUpResponses, s)
           /\ ~Has(pendingFollowUpResponses', s))
            => /\ outbox' = outbox
               /\ Committed' = Committed
               /\ inbox' = inbox
     /\ \A p \in DOMAIN polls : \A s \in Senders :
          (/\ Takes(p)
           /\ polls'[p].sender = s
           /\ Expired(s))
            => /\ Committed' = Committed
               /\ IF IsCancel(MessageText(Taken(p)))
                    THEN polls'[p].pc = "send" /\ polls'[p].at = "ccReady"
                  ELSE IF IsSummaryRequest(Taken(p))
                    THEN polls'[p].pc = "getSummary"
                  ELSE IF ParseMessage(MessageText(Taken(p))).isValidMeeting
                    THEN polls'[p].pc = "calendar"
                  ELSE polls'[p].pc = "send" /\ polls'[p].at = "help"]_vars

\* An interaction has expired and the reply `no' that came after it was
\* answered with the help message; nothing is stored.
C26_Witness ==
  /\ Expired(MyPhone)
  /\ ttlTimers = <<>>
  /\ lastProcessedMessageId \in DOMAIN inbox
  /\ inbox[lastProcessedMessageId].text = "no"
  /\ outbox # <<>>
  /\ outbox[Len(outbox)].kind = "help"
  /\ contacts = <<>> /\ reminders = <<>>
  /\ polls[1] = Idle

\* C27: a handling that checkForNewMessages has started ends, whichever of
\* its awaits raise: its last step leaves the invocation idle, the flag
\* isProcessingMessage lowered and the message recorded as processed, and
\* every handling in progress reaches that step; an invocation that then
\* finds a newer recent message takes it.
C27_HandlingAlwaysEnds ==
  /\ [][\A p \in DOMAIN polls :
          /\ (Handling(p) /\ polls'[p] # polls[p] /\ ~Handling(p)')
               => /\ polls'[p] = Idle
                  /\ ~isProcessingMessage'
                  /\ lastProcessedMessageId' = polls[p].msg
          /\ (/\ polls[p].pc = "getMessages" /\ polls'[p] # polls[p]
              /\ failures' = failures
              /\ LatestSelfMessage(inbox) \notin {0, lastProcessedMessageId}
              /\ now - inbox[LatestSelfMessage(inbox)].date < RecencyWindow)
               => /\ Handling(p)'
                  /\ polls'[p].msg = LatestSelfMessage(inbox)]_vars
  /\ \A p \in OnePoll : Handling(p) ~> (polls[p] = Idle /\ ~isProcessingMessage)

\* The second message of the run has been handled after the handling of the
\* first met four failures in a row: the suggestion and the error messages
\* of the three catch blocks could not be sent.
C27_Witness ==
  /\ failures = 4
  /\ lastProcessedMessageId = 2
  /\ ~isProcessingMessage
  /\ polls[1] = Idle
  /\ Len(outbox) = 1
  /\ outbox[1].kind = "help"


\* ------------------------------------------------------------------ C28

\* The identifiers a step hands out.
NewIds ==
  {reminders'[i].id : i \in DOMAIN reminders' \ DOMAIN reminders}
    \cup {e.id : e \in {x \in executions' \ executions : x.how = 0 /\ x.outcome = "running"}}

\* C28: every registration gets an identifier no other registration has got,
\* and leaves every reminder registered earlier as it was: neither cancelled
\* nor put out of the Map.
C28_RegistrationsKeepApart ==
  [][Registrations' = Registrations + 1 =>
       /\ NewIds \cap HandedOut = {}
       /\ \A i \in DOMAIN reminders : reminders'[i] = reminders[i]]_vars

\* ------------------------------------------------------------------ C29

\* The number of days from the day of instant t to the day of instant u.
DaysAhead(t, u) == (StartOfDay(u) - StartOfDay(t)) \div MinutesPerDay

\* C29: a reply that names a weekday and matches no earlier rule resolves to
\* 9:00 of a day of that name which is 1 to 7 days after the day of the call:
\* never the day of the call, and 7 days ahead when that day has the name.
C29_NextOccurrence ==
  last.op = "parseSchedulingResponse" =>
    LET s == Trim(ToLowerCase(Chars(last.response)))
        date == last.ret.customDate
    IN  FirstRule(s) = 5 =>
          /\ date # NoDate
          /\ date % MinutesPerDay = MorningHour * MinutesPerHour
          /\ GetDay(date) \in NamedDays(s)
          /\ DaysAhead(last.at, date) \in 1..DaysPerWeek
          /\ NamedDays(s) = {GetDay(last.at)} => DaysAhead(last.at, date) = DaysPerWeek

\* "friday" has been classified at 10:00 of a Friday.
C29_Witness ==
  /\ last.op = "parseSchedulingResponse"
  /\ FirstRule(Trim(ToLowerCase(Chars(last.response)))) = 5
  /\ NamedDays(Trim(ToLowerCase(Chars(last.response)))) = {GetDay(last.at)}
  /\ last.at % MinutesPerDay > MorningHour * MinutesPerHour
  /\ last.ret.customDate = last.at + DaysPerWeek * MinutesPerDay - MinutesPerHour

\* ------------------------------------------------------------------ C30

\* C30: when the confirmation of a reply classified sendNow, sendTomorrow
\* or customDate is emitted, the stored status of the contact it confirms
\* is already `sent' or `scheduled': the sender never has the confirmation
\* while the stored status is still `pending'.
C30_ConfirmationAfterUpdate ==
  [][\A p \in DOMAIN polls :
       Sent(p, "srConfirm")
         => contacts'[polls[p].contactId].followUpStatus \in {"sent", "scheduled"}]_vars

\* ------------------------------------------------------------------ C31

\* C31: while no message is being handled, every reminder that is pending
\* in the scheduler is for a stored contact whose status is `scheduled'.
C31_NoOrphanReminder ==
  Quiet =>
    \A i \in DOMAIN reminders :
      (reminders[i].live /\ reminders[i].status = "pending")
        => /\ reminders[i].contactId \in DOMAIN contacts
           /\ contacts[reminders[i].contactId].followUpStatus = "scheduled"

\* ------------------------------------------------------------------ C32

\* The interactions begun so far: the scheduling prompts that were sent, each
\* the answer to an accepted trigger.
Interactions == Cardinality({i \in DOMAIN outbox : outbox[i].kind = "suggestion"})

\* C32: the contacts persisted and the reminders registered are at most as
\* many as the interactions begun: no interaction is committed twice.
C32_OneCommitPerInteraction ==
  /\ Len(contacts) <= Interactions
  /\ Registrations <= Interactions

\* ------------------------------------------------------------------ C33

\* C33: a message that an invocation takes for handling is not the message
\* recorded as processed and is not in the hands of another invocation: no
\* message is taken twice.
C33_HandledAtMostOnce ==
  [][\A p \in DOMAIN polls :
       Takes(p)
         => /\ polls'[p].msg # lastProcessedMessageId
            /\ \A q \in DOMAIN polls \ {p} : polls[q].msg # polls'[p].msg]_vars

\* ------------------------------------------------------------------ C34

\* Message m is being handled or is recorded as processed.
Reached(m) ==
  \/ lastProcessedMessageId = m
  \/ \E p \in DOMAIN polls : Handling(p) /\ polls[p].msg = m

\* C34: under fair polling every message with a text that MyPhone sends, and
\* that is recent at every poll, is eventually handled.
C34_EveryMessageHandled ==
  \A m \in 1..MaxMessages :
    (m \in DOMAIN inbox /\ LatestSelfMessage(SubSeq(inbox, 1, m)) = m) ~> Reached(m)

\* ------------------------------------------------------------------ C35

\* The call of getMessages of invocation p returns in this step, and the
\* latest message of MyPhone is no longer recent.
ReturnsOld(p) ==
  /\ polls[p].pc = "getMessages" /\ polls'[p] # polls[p] /\ failures' = failures
  /\ LatestSelfMessage(inbox) # 0
  /\ now - inbox[LatestSelfMessage(inbox)].date >= RecencyWindow

\* C35: a poll that finds the latest message no longer recent does not
\* handle it: the invocation returns, the message is recorded as processed
\* when none was recorded before, and the pending data, the contacts, the
\* reminders and the messages sent stay as they were.
C35_OldMessageOnlyRecorded ==
  [][\A p \in DOMAIN polls :
       ReturnsOld(p)
         => /\ polls'[p] = Idle
            /\ lastProcessedMessageId' =
                 (IF lastProcessedMessageId = 0 THEN LatestSelfMessage(inbox)
                  ELSE lastProcessedMessageId)
            /\ isProcessingMessage' = isProcessingMessage
            /\ \A s \in Senders : PendingData(s)' = PendingData(s)
            /\ ttlTimers' = ttlTimers
            /\ Committed' = Committed
            /\ outbox' = outbox]_vars

\* A trigger that was a minute old at the first poll is recorded as
\* processed and nothing came of it.
C35_Witness ==
  /\ lastProcessedMessageId = 1
  /\ inbox[1].text = "met ann at expo"
  /\ now >= inbox[1].date + RecencyWindow
  /\ \A s \in Senders : IsIdle(s) /\ pendingContacts[s] = NoContact
  /\ contacts = <<>> /\ reminders = <<>> /\ executions = {} /\ outbox = <<>>
  /\ \A p \in DOMAIN polls : polls[p] = Idle

\* ------------------------------------------------------------------ C36

\* The invocations of the action made by the timer of reminder object i.
FiredBy(log, i) == {e \in log : e.how = i}

\* C36: once cancelReminder has returned true for a reminder (the reminder
\* is cancelled), its action is not being executed and is not invoked: no
\* invocation made by its timer is running after the call, and none is added
\* later.
C36_CancelledNeverRuns ==
  [][\A i \in DOMAIN reminders' :
       reminders'[i].status = "cancelled"
         => /\ RunningOf(executions', i) = {}
            /\ (i \in DOMAIN reminders /\ reminders[i].status = "cancelled")
                 => FiredBy(executions', i) = FiredBy(executions, i)]_vars

\* ------------------------------------------------------------------ C37

\* C37: while no message is being handled the three Maps have the same
\* keys: a sender has the pending flag exactly when a draft contact is
\* stored for it, and exactly when a draft message is stored for it.
C37_MapsAgree ==
  Quiet =>
    \A s \in Senders :
      /\ Has(pendingFollowUpResponses, s) <=> pendingContacts[s] # NoContact
      /\ Has(pendingFollowUpResponses, s) <=> pendingDraftMessages[s] # NoDraft

\* ------------------------------------------------------------------ C38

\* C38: after shutdown has returned no sender has a pending flag, and no
\* invocation of checkForNewMessages is started by the interval.
C38_DiscardedForGood ==
  [][~pollInterval'
       => /\ \A s \in Senders : ~Has(pendingFollowUpResponses', s)
          /\ ~pollInterval
               => \A p \in DOMAIN polls :
                    ~(polls[p].pc = "idle" /\ polls'[p].pc = "getMessages")]_vars

\* ------------------------------------------------------------------ C39

\* The conversation state of the controller.
Conversation ==
  <<pendingFollowUpResponses, pendingContacts, pendingDraftMessages,
    isProcessingMessage, lastProcessedMessageId>>

\* C39: a step of the firing of a reminder (the timer callback invokes the
\* action, or the action, sendFollowUpReminder, returns) leaves the pending
\* flag, the draft contact and the draft message of every sender,
\* isProcessingMessage and lastProcessedMessageId as they were.
C39_FireLeavesConversation ==
  [][executions' # executions => Conversation' = Conversation]_vars

\* A reminder has been delivered while an interaction of MyPhone is pending.
C39_Witness ==
  /\ outbox # <<>>
  /\ outbox[Len(outbox)].kind = "reminder"
  /\ \E i \in DOMAIN reminders : reminders[i].status = "sent"
  /\ IsPending(MyPhone)
  /\ pendingContacts[MyPhone] # NoContact

\* ------------------------------------------------------------------ C40

\* C40: every value that parseSchedulingResponse returns selects exactly
\* one of sendNow, sendTomorrow, noReminder and a custom date; and
\* scheduleBasedOnPreference, called with such a value, returns the empty id
\* and leaves the reminders and the invocations of the action as they were
\* exactly when the value selects noReminder.
C40_OneAlternative ==
  [][/\ last'.op = "parseSchedulingResponse"
          => Cardinality({k \in 1..4 :
                            <<last'.ret.sendNow, last'.ret.sendTomorrow, last'.ret.noReminder,
                              last'.ret.customDate # NoDate>>[k]}) = 1
     /\ last'.op = "scheduleBasedOnPreference"
          => ((last'.ret = NoId /\ reminders' = reminders /\ executions' = executions)
                <=> last'.preference.noReminder)]_vars

\* scheduleBasedOnPreference has returned the empty id for a reply
\* classified noReminder, and nothing is registered.
C40_Witness ==
  /\ last.op = "scheduleBasedOnPreference"
  /\ last.preference.noReminder
  /\ last.ret = NoId
  /\ reminders = <<>> /\ executions = {}

============================================================================
